---------------------------- MODULE Spec2Model ----------------------------
(***************************************************************************)
(* Induction decision engine of the trainset induction system:             *)
(*   models/trainset.py              Trainset.is_service_ready             *)
(*   optimization/scheduler.py       InductionScheduler                    *)
(*   simulation/scenario_engine.py   ScenarioEngine                        *)
(*                                                                         *)
(* Representation.                                                         *)
(*  - Instants (datetime) are whole days, as integers; `now` is the value  *)
(*    datetime.now() returns.  One call of a public method reads one       *)
(*    instant.                                                             *)
(*  - Optional[X] is a sequence: <<>> is None, <<x>> is a present x.        *)
(*  - Scores are Python floats.  They are kept here as exact fixed-point   *)
(*    integers: a sub-score s is the integer s * ONE, a composite score c  *)
(*    is the integer c * 100 * ONE (the weights are held in percent).      *)
(*    The mileages, exposure hours, dates and bays of the model are chosen *)
(*    so that every division of the scorer is exact in this unit.          *)
(***************************************************************************)
EXTENDS Integers, Sequences, FiniteSets, TLC

VARIABLES
    now,        \* the clock, datetime.now(), in days
    trainsets,  \* the caller's vehicle list (Fleet Snapshot)
    last,       \* the latest optimize_induction call: input, demand, instant, result
    prev,       \* the optimize_induction call before `last` on the same scheduler
    result,     \* the latest run_scenario call: input, instant and returned dict
    probe,      \* one vehicle handed to is_service_ready or to the scorer
    probe_ready, \* <<>> before the evaluation, <<returned value>> after
    probe_score, \* the outcome of _calculate_composite_score on the probed vehicle
    ingest      \* DataManager: what each source's fetch gave, the cache, the refresh result

vars == <<now, trainsets, last, prev, result, probe, probe_ready, probe_score, ingest>>

-----------------------------------------------------------------------------
(* Bounds of the model *)

MaxFleet == 3        \* vehicles in a snapshot handed to optimize_induction
MaxNow == 1          \* the clock runs over 0..MaxNow
MaxDemand == 3       \* service_demand ranges over -1..MaxDemand
MaxSmallFleet == 2   \* vehicles in a snapshot handed to run_scenario or to repeated calls
MaxCerts == 2        \* certificates on the vehicle probed by is_service_ready
MaxJobs == 2         \* job cards on the vehicle probed by is_service_ready

-----------------------------------------------------------------------------
(* Data model: models/trainset.py *)

None == <<>>
Some(x) == <<x>>

TrainsetStatus == {"revenue_service", "standby", "maintenance", "cleaning", "out_of_service"}
CertificateType == {"rolling_stock", "signalling", "telecom"}
JobCardStatus == {"open", "closed", "in_progress"}

FitnessCertificate(type, expiry, valid) ==
    [certificate_type |-> type, expiry_date |-> expiry, is_valid |-> valid]

\* job_id holds the prefix of the id string; the vehicle id and the date that the
\* scenario injectors format into it are the fields trainset_id and created_date.
JobCard(id, owner, status, priority, hours, created) ==
    [job_id |-> id, trainset_id |-> owner, status |-> status,
     priority |-> priority, estimated_hours |-> hours, created_date |-> created]

BrandingContract(required, current) ==
    [required_exposure_hours |-> required, current_exposure_hours |-> current]

InductionDecision(id, status, score, reasoning, hours) ==
    [trainset_id |-> id, recommended_status |-> status, priority_score |-> score,
     reasoning |-> reasoning, conflicts |-> <<>>, estimated_service_hours |-> hours]

\* estimated_service_hours: float = 0.0
default_estimated_service_hours == 0

\* the indexes of a list, and the trainset_id values found in one
Positions(seq) == 1..Len(seq)
Ids(seq) == {seq[i].trainset_id : i \in Positions(seq)}

Min(a, b) == IF a <= b THEN a ELSE b
Max(a, b) == IF a >= b THEN a ELSE b

-----------------------------------------------------------------------------
(* Readiness Evaluator: Trainset.is_service_ready *)

\* (variant: a certificate expiring at the evaluation instant still counts)
cert_valid_expiry_inclusive(cert, at) == cert.is_valid /\ cert.expiry_date >= at
\* cert.is_valid and cert.expiry_date > datetime.now()
cert_currently_valid(cert, at) == cert.is_valid /\ cert.expiry_date > at

\* jc.status == JobCardStatus.OPEN and jc.priority <= 2
high_priority_open(jc) == jc.status = "open" /\ jc.priority <= 2

RECURSIVE all_certs_valid(_, _)
all_certs_valid(certs, at) ==
    IF certs = <<>> THEN TRUE
    ELSE IF ~cert_currently_valid(Head(certs), at) THEN FALSE
    ELSE all_certs_valid(Tail(certs), at)

RECURSIVE any_high_priority_open(_)
any_high_priority_open(jobs) ==
    IF jobs = <<>> THEN FALSE
    ELSE IF high_priority_open(Head(jobs)) THEN TRUE
    ELSE any_high_priority_open(Tail(jobs))

is_service_ready(trainset, at) ==
    IF ~all_certs_valid(trainset.fitness_certificates, at) THEN FALSE
    ELSE ~any_high_priority_open(trainset.job_cards)

-----------------------------------------------------------------------------
(* Composite Scorer: InductionScheduler._calculate_composite_score *)

ONE == 30 * 10                   \* the fixed-point unit of a sub-score (1.0)
HALF == ONE \div 2               \* the literal 0.5

\* self.weights, in percent
weight_service_readiness == 30
weight_mileage_balance == 20
weight_branding_priority == 20
weight_maintenance_urgency == 15
weight_stabling_efficiency == 15

avg_mileage == 50000
maintenance_normalization_days == 30
\* config_loader.get_total_trainsets(): fleet.total_trainsets, 25 when not configured
total_trainsets == 25

readiness_score(trainset, at) == IF is_service_ready(trainset, at) THEN ONE ELSE 0

\* max(0, 1 - (current_mileage - avg_mileage) / avg_mileage)
mileage_score(trainset) ==
    Max(0, ONE - ((trainset.current_mileage - avg_mileage) * ONE) \div avg_mileage)

\* `if trainset.branding_contract:` a contract object is always truthy
branding_score(trainset) ==
    IF trainset.branding_contract = None THEN HALF
    ELSE LET c == trainset.branding_contract[1]
             exposure_ratio == (c.current_exposure_hours * ONE) \div c.required_exposure_hours
         IN Max(0, ONE - exposure_ratio)

\* days_since = (datetime.now() - last_maintenance_date).days;  min(1.0, days_since / 30)
maintenance_score(trainset, at) ==
    IF trainset.last_maintenance_date = None THEN HALF
    ELSE LET days_since == at - trainset.last_maintenance_date[1]
         IN Min(ONE, (days_since * ONE) \div maintenance_normalization_days)

\* `if trainset.stabling_bay:` is false for None and for bay 0
stabling_score(trainset) ==
    IF trainset.stabling_bay = None \/ trainset.stabling_bay = Some(0) THEN HALF
    ELSE Max(0, ONE - (trainset.stabling_bay[1] * ONE) \div total_trainsets)

_calculate_composite_score(trainset, at) ==
      weight_service_readiness * readiness_score(trainset, at)
    + weight_mileage_balance * mileage_score(trainset)
    + weight_branding_priority * branding_score(trainset)
    + weight_maintenance_urgency * maintenance_score(trainset, at)
    + weight_stabling_efficiency * stabling_score(trainset)

\* f"{score:.3f}": the score rounded to thousandths
format_score_3f(score) == (score * 10 + ONE \div 2) \div ONE

-----------------------------------------------------------------------------
(* Allocation Policy: InductionScheduler.optimize_induction *)

\* (variant: the service branch leaves estimated_service_hours at its default)
nominal_service_hours_omitted == default_estimated_service_hours
\* estimated_service_hours=16.0  (typical service day)
nominal_service_hours == 16

\* One message of a decision's reasoning list: the text with its formatted numbers.
Reason(text, args) == [text |-> text, args |-> args]

\* (variant: the demand test admits one vehicle more)
demand_not_met_inclusive(current_service, service_demand) == current_service <= service_demand
\* (variant: allocation goes on until the counter equals the demand)
demand_not_met_unequal(current_service, service_demand) == current_service # service_demand
\* current_service < service_demand
demand_not_met(current_service, service_demand) == current_service < service_demand

\* (variant: the readiness gate is skipped)
must_go_to_maintenance_never(trainset, at) == FALSE
\* (variant: a vehicle currently marked maintenance stays in maintenance)
must_go_to_maintenance_or_marked(trainset, at) ==
    ~is_service_ready(trainset, at) \/ trainset.current_status = "maintenance"
\* not trainset.is_service_ready()
must_go_to_maintenance(trainset, at) == ~is_service_ready(trainset, at)

\* (variant: the first ready vehicle is held back as a standby reserve)
_make_allocation_decision_reserve_first(trainset, score, current_service, current_standby, service_demand, at) ==
    IF must_go_to_maintenance(trainset, at)
    THEN InductionDecision(trainset.trainset_id, "maintenance", score,
             <<Reason("Trainset not service-ready due to certificates or job cards", <<>>)>>,
             default_estimated_service_hours)
    ELSE IF current_standby >= 1 /\ demand_not_met(current_service, service_demand)
    THEN InductionDecision(trainset.trainset_id, "revenue_service", score,
             <<Reason("Allocated to service (demand, current)", <<service_demand, current_service>>),
               Reason("Composite score", <<format_score_3f(score)>>)>>,
             nominal_service_hours)
    ELSE InductionDecision(trainset.trainset_id, "standby", score,
             <<Reason("Allocated to standby - service demand met", <<>>)>>,
             default_estimated_service_hours)

_make_allocation_decision(trainset, score, current_service, current_standby, service_demand, at) ==
    IF must_go_to_maintenance(trainset, at)
    THEN InductionDecision(trainset.trainset_id, "maintenance", score,
             <<Reason("Trainset not service-ready due to certificates or job cards", <<>>)>>,
             default_estimated_service_hours)
    ELSE IF demand_not_met(current_service, service_demand)
    THEN InductionDecision(trainset.trainset_id, "revenue_service", score,
             <<Reason("Allocated to service (demand, current)", <<service_demand, current_service>>),
               Reason("Composite score", <<format_score_3f(score)>>)>>,
             nominal_service_hours)
    ELSE InductionDecision(trainset.trainset_id, "standby", score,
             <<Reason("Allocated to standby - service demand met", <<>>)>>,
             default_estimated_service_hours)

\* (variant: only the service-ready vehicles are scored and decided)
scored_ready_only(ts, at) ==
    LET ready == SelectSeq(ts, LAMBDA t : is_service_ready(t, at))
    IN [i \in 1..Len(ready) |-> <<ready[i], _calculate_composite_score(ready[i], at)>>]
\* scored_trainsets.append((trainset, score)) for every trainset, in input order
scored(ts, at) == [i \in 1..Len(ts) |-> <<ts[i], _calculate_composite_score(ts[i], at)>>]

\* (variant: ascending order, reverse=True forgotten)
goes_before_ascending(x, y) == x[2] < y[2]
\* (variant: an equal score goes in front of the ones already placed)
goes_before_or_equal(x, y) == x[2] >= y[2]
\* list.sort(key=score, reverse=True): x is placed before y only when its key is
\* strictly greater, so equal keys keep their input order
goes_before(x, y) == x[2] > y[2]

RECURSIVE insert_sorted(_, _)
insert_sorted(sorted, x) ==
    IF sorted = <<>> THEN <<x>>
    ELSE IF goes_before(x, Head(sorted)) THEN <<x>> \o sorted
    ELSE <<Head(sorted)>> \o insert_sorted(Tail(sorted), x)

\* scored_trainsets.sort(key=lambda x: x[1], reverse=True)
RECURSIVE sort_by_score(_)
sort_by_score(pairs) ==
    IF pairs = <<>> THEN <<>>
    ELSE insert_sorted(sort_by_score(SubSeq(pairs, 1, Len(pairs) - 1)), pairs[Len(pairs)])

\* (variant: the counter lives on the scheduler and is not reset between calls)
service_count_carried ==
    Cardinality({i \in 1..Len(last.decisions) :
                    last.decisions[i].recommended_status = "revenue_service"})
\* service_count = 0
initial_service_count == 0
\* standby_count = 0
initial_standby_count == 0

\* (variant: every decision, maintenance included, advances service_count)
RECURSIVE allocate_walk_counting_all(_, _, _, _, _)
allocate_walk_counting_all(pairs, service_count, standby_count, service_demand, at) ==
    IF pairs = <<>> THEN <<>>
    ELSE LET decision == _make_allocation_decision(Head(pairs)[1], Head(pairs)[2],
                             service_count, standby_count, service_demand, at)
             status == decision.recommended_status
         IN <<decision>> \o
            allocate_walk_counting_all(Tail(pairs),
                IF status \in {"revenue_service", "maintenance"}
                THEN service_count + 1 ELSE service_count,
                IF status = "standby" THEN standby_count + 1 ELSE standby_count,
                service_demand, at)

\* for trainset, score in scored_trainsets: decide, count, append
RECURSIVE allocate_walk(_, _, _, _, _)
allocate_walk(pairs, service_count, standby_count, service_demand, at) ==
    IF pairs = <<>> THEN <<>>
    ELSE LET decision == _make_allocation_decision(Head(pairs)[1], Head(pairs)[2],
                             service_count, standby_count, service_demand, at)
             status == decision.recommended_status
         IN <<decision>> \o
            allocate_walk(Tail(pairs),
                IF status = "revenue_service" THEN service_count + 1 ELSE service_count,
                IF status = "standby" THEN standby_count + 1 ELSE standby_count,
                service_demand, at)

\* the counters as the walk leaves them (logged as "Allocation complete: ...")
RECURSIVE final_counts(_, _, _, _, _)
final_counts(pairs, service_count, standby_count, service_demand, at) ==
    IF pairs = <<>> THEN [service_count |-> service_count, standby_count |-> standby_count]
    ELSE LET decision == _make_allocation_decision(Head(pairs)[1], Head(pairs)[2],
                             service_count, standby_count, service_demand, at)
             status == decision.recommended_status
         IN final_counts(Tail(pairs),
                IF status = "revenue_service" THEN service_count + 1 ELSE service_count,
                IF status = "standby" THEN standby_count + 1 ELSE standby_count,
                service_demand, at)

optimize_induction(ts, service_demand, at) ==
    allocate_walk(sort_by_score(scored(ts, at)),
                  initial_service_count, initial_standby_count, service_demand, at)

\* service_demand: int = 20
default_service_demand == 20

-----------------------------------------------------------------------------
(* Fleet snapshots handed to the engine *)

FarExpiry == MaxNow + 10        \* an expiry date after every instant of the model
SoonExpiry == MaxNow           \* an expiry date the clock reaches

\* Kinds of vehicle a snapshot is built from; p selects the kind, id names the vehicle.
Profile(p, id) ==
    CASE p = 1 ->   \* fully certified, contract, bay and maintenance date known
        [trainset_id |-> id, current_status |-> "standby", current_mileage |-> 50000,
         last_maintenance_date |-> Some(0 - 15),
         fitness_certificates |-> <<FitnessCertificate("rolling_stock", FarExpiry, TRUE),
                                    FitnessCertificate("signalling", FarExpiry, TRUE),
                                    FitnessCertificate("telecom", FarExpiry, TRUE)>>,
         job_cards |-> <<>>,
         branding_contract |-> Some(BrandingContract(100, 50)),
         stabling_bay |-> Some(5)]
      [] p = 2 ->   \* ready, high mileage, no telecom certificate
        [trainset_id |-> id, current_status |-> "standby", current_mileage |-> 100000,
         last_maintenance_date |-> None,
         fitness_certificates |-> <<FitnessCertificate("rolling_stock", FarExpiry, TRUE)>>,
         job_cards |-> <<>>, branding_contract |-> None, stabling_bay |-> None]
      [] p = 3 ->   \* no certificates at all (as after a failed certificate source); harmless job cards
        [trainset_id |-> id, current_status |-> "standby", current_mileage |-> 50000,
         last_maintenance_date |-> None,
         fitness_certificates |-> <<>>,
         job_cards |-> <<JobCard("JC-A", id, "open", 3, 4, 0 - 3),
                         JobCard("JC-B", id, "in_progress", 1, 4, 0 - 2),
                         JobCard("JC-C", id, "closed", 2, 4, 0 - 9)>>,
         branding_contract |-> None, stabling_bay |-> None]
      [] p = 4 ->   \* telecom certificate flagged invalid; lowest mileage
        [trainset_id |-> id, current_status |-> "standby", current_mileage |-> 0,
         last_maintenance_date |-> None,
         fitness_certificates |-> <<FitnessCertificate("telecom", FarExpiry, FALSE)>>,
         job_cards |-> <<>>, branding_contract |-> None, stabling_bay |-> None]
      [] p = 5 ->   \* telecom certificate that expires while the clock runs
        [trainset_id |-> id, current_status |-> "revenue_service", current_mileage |-> 50000,
         last_maintenance_date |-> None,
         fitness_certificates |-> <<FitnessCertificate("telecom", SoonExpiry, TRUE)>>,
         job_cards |-> <<>>, branding_contract |-> None, stabling_bay |-> None]
      [] OTHER ->   \* open priority-2 job card
        [trainset_id |-> id, current_status |-> "standby", current_mileage |-> 50000,
         last_maintenance_date |-> None,
         fitness_certificates |-> <<FitnessCertificate("rolling_stock", FarExpiry, TRUE)>>,
         job_cards |-> <<JobCard("JC-D", id, "open", 2, 4, 0 - 1)>>,
         branding_contract |-> None, stabling_bay |-> None]

Profiles == 1..6

\* trainset_id=f"TS-{i:03d}"
TrainsetId(i) ==
    IF i < 10 THEN "TS-00" \o ToString(i)
    ELSE IF i < 100 THEN "TS-0" \o ToString(i)
    ELSE "TS-" \o ToString(i)

\* Every snapshot of at most n vehicles, ids unique
Fleets(n) ==
    UNION {{[i \in 1..k |-> Profile(choice[i], TrainsetId(i))] : choice \in [1..k -> Profiles]}
            : k \in 0..n}

Demands == (0 - 1)..MaxDemand

NoCall == [called |-> FALSE, trainsets |-> <<>>, service_demand |-> 0, at |-> 0,
           decisions |-> <<>>]
NoResult == [called |-> FALSE, raised |-> None]
NoProbe == Profile(3, "TS-001")
NoScore == [called |-> FALSE]
\* DataManager.__init__: nothing fetched, trainsets_cache = {}, last_update = None
Sources == {"maximo", "iot", "manual"}
NoIngest == [fetched |-> [source \in Sources |-> None],
             trainsets_cache |-> <<>>, last_update |-> None, refreshed |-> None]

-----------------------------------------------------------------------------
(* Spec: allocation runs over a snapshot taken at some instant *)

Instants == 0..MaxNow

Init ==
    /\ now \in Instants
    /\ trainsets \in Fleets(MaxFleet)
    /\ last = NoCall
    /\ prev = NoCall
    /\ result = NoResult
    /\ probe = NoProbe
    /\ probe_ready = <<>>
    /\ probe_score = NoScore
    /\ ingest = NoIngest

Tick ==
    /\ now < MaxNow
    /\ now' = now + 1
    /\ UNCHANGED <<trainsets, last, prev, result, probe, probe_ready, probe_score, ingest>>

Call(service_demand) ==
    last' = [called |-> TRUE, trainsets |-> trainsets, service_demand |-> service_demand,
             at |-> now, decisions |-> optimize_induction(trainsets, service_demand, now)]

OptimizeInduction ==
    \E service_demand \in Demands :
        /\ Call(service_demand)
        /\ UNCHANGED <<now, trainsets, prev, result, probe, probe_ready, probe_score, ingest>>

Next == OptimizeInduction

Spec == Init /\ [][Next]_vars

-----------------------------------------------------------------------------
(* Properties of one allocation run (Spec) *)

ReadyCount(ts, at) == Cardinality({i \in Positions(ts) : is_service_ready(ts[i], at)})
StatusCount(ds, status) ==
    Cardinality({i \in Positions(ds) : ds[i].recommended_status = status})
\* the decisions made for the vehicle at input position i
DecisionsFor(call, i) ==
    {k \in Positions(call.decisions) :
        call.decisions[k].trainset_id = call.trainsets[i].trainset_id}

\* C1: for service_demand >= 0 exactly min(service_demand, number of service-ready
\* vehicles) vehicles are assigned revenue_service; when demand exceeds the ready
\* vehicles, every ready vehicle is in service.
C1_ServiceCountIsMinDemandReady ==
    (last.called /\ last.service_demand >= 0) =>
        /\ StatusCount(last.decisions, "revenue_service")
             = Min(last.service_demand, ReadyCount(last.trainsets, last.at))
        /\ last.service_demand > ReadyCount(last.trainsets, last.at) =>
             \A i \in Positions(last.trainsets) :
                is_service_ready(last.trainsets[i], last.at) =>
                    \A k \in DecisionsFor(last, i) :
                        last.decisions[k].recommended_status = "revenue_service"

C1_Witness_DemandExceedsReady ==
    /\ last.called
    /\ ReadyCount(last.trainsets, last.at) = 2
    /\ Len(last.trainsets) = 3
    /\ last.service_demand = 3
    /\ StatusCount(last.decisions, "revenue_service") = 2

\* C2: whatever the demand, a vehicle that is not service-ready is assigned
\* maintenance; no vehicle with an invalid or expired certificate, or with an open
\* job card of priority <= 2, is assigned revenue_service.
C2_NotReadyGoesToMaintenance ==
    last.called =>
        \A i \in Positions(last.trainsets) :
            LET t == last.trainsets[i]
                blocked ==
                    \/ \E c \in Positions(t.fitness_certificates) :
                          \/ ~t.fitness_certificates[c].is_valid
                          \/ t.fitness_certificates[c].expiry_date <= last.at
                    \/ \E j \in Positions(t.job_cards) :
                          t.job_cards[j].status = "open" /\ t.job_cards[j].priority <= 2
            IN /\ DecisionsFor(last, i) # {}
               /\ \A k \in DecisionsFor(last, i) :
                    /\ ~is_service_ready(t, last.at) =>
                          last.decisions[k].recommended_status = "maintenance"
                    /\ blocked => last.decisions[k].recommended_status # "revenue_service"

C2_Witness_NotReadyUnderExcessDemand ==
    /\ last.called
    /\ last.service_demand > Len(last.trainsets)
    /\ \E i \in Positions(last.trainsets) :
          /\ ~is_service_ready(last.trainsets[i], last.at)
          /\ \E k \in DecisionsFor(last, i) :
                last.decisions[k].recommended_status = "maintenance"
    /\ StatusCount(last.decisions, "revenue_service") >= 1

\* C4: the decision list has exactly one decision per input vehicle: same length,
\* same set of ids, no id missing or duplicated.
C4_OneDecisionPerVehicle ==
    last.called =>
        /\ Len(last.decisions) = Len(last.trainsets)
        /\ Ids(last.decisions) = Ids(last.trainsets)
        /\ \A i \in Positions(last.trainsets) : Cardinality(DecisionsFor(last, i)) = 1

C4_Witness_MixedFleetDecided ==
    /\ last.called
    /\ Len(last.trainsets) = 3
    /\ StatusCount(last.decisions, "maintenance") >= 1
    /\ StatusCount(last.decisions, "revenue_service") >= 1
    /\ StatusCount(last.decisions, "standby") >= 1

\* C5: no ready vehicle on standby has a strictly higher composite score than a
\* vehicle in revenue_service, and of two ready vehicles with equal score the one
\* earlier in the input list is served first.
C5_HighestScoringReadyServed ==
    last.called =>
        /\ \A a, b \in Positions(last.decisions) :
              (/\ last.decisions[a].recommended_status = "standby"
               /\ last.decisions[b].recommended_status = "revenue_service")
              => last.decisions[a].priority_score <= last.decisions[b].priority_score
        /\ \A i, j \in Positions(last.trainsets) :
              (/\ i < j
               /\ is_service_ready(last.trainsets[i], last.at)
               /\ is_service_ready(last.trainsets[j], last.at)
               /\ _calculate_composite_score(last.trainsets[i], last.at)
                    = _calculate_composite_score(last.trainsets[j], last.at)
               /\ \E k \in DecisionsFor(last, j) :
                     last.decisions[k].recommended_status = "revenue_service")
              => \A k \in DecisionsFor(last, i) :
                     last.decisions[k].recommended_status = "revenue_service"

C5_Witness_TieSplitByDemand ==
    /\ last.called
    /\ \E i, j \in Positions(last.trainsets) :
          /\ i < j
          /\ last.trainsets[i].current_status # last.trainsets[j].current_status
          /\ _calculate_composite_score(last.trainsets[i], last.at)
               = _calculate_composite_score(last.trainsets[j], last.at)
          /\ \E k \in DecisionsFor(last, i) :
                last.decisions[k].recommended_status = "revenue_service"
          /\ \E k \in DecisionsFor(last, j) :
                last.decisions[k].recommended_status = "standby"

\* C6: the decision sequence is ordered by composite score, non-increasing, and
\* vehicles with equal score keep the relative order of the input list.
C6_SortedDescendingStable ==
    last.called =>
        /\ \A a, b \in Positions(last.decisions) :
              a < b => last.decisions[a].priority_score >= last.decisions[b].priority_score
        /\ \A i, j \in Positions(last.trainsets) :
              (/\ i < j
               /\ _calculate_composite_score(last.trainsets[i], last.at)
                    = _calculate_composite_score(last.trainsets[j], last.at))
              => \A a \in DecisionsFor(last, i), b \in DecisionsFor(last, j) : a < b

C6_Witness_ReorderedWithTie ==
    /\ last.called
    /\ Len(last.trainsets) = 3
    /\ last.decisions[1].trainset_id = TrainsetId(2)
    /\ last.decisions[2].trainset_id = TrainsetId(3)
    /\ last.decisions[3].trainset_id = TrainsetId(1)
    /\ last.decisions[1].priority_score = last.decisions[2].priority_score
    /\ last.decisions[2].priority_score > last.decisions[3].priority_score

\* C7: an empty vehicle list yields an empty decision sequence; with
\* service_demand <= 0 no vehicle is assigned revenue_service: every ready vehicle
\* gets standby, every not-ready vehicle maintenance.
C7_DegenerateInput ==
    last.called =>
        /\ last.trainsets = <<>> => last.decisions = <<>>
        /\ last.service_demand <= 0 =>
              /\ Len(last.decisions) = Len(last.trainsets)
              /\ \A i \in Positions(last.trainsets) :
                    /\ DecisionsFor(last, i) # {}
                    /\ \A k \in DecisionsFor(last, i) :
                          last.decisions[k].recommended_status =
                              IF is_service_ready(last.trainsets[i], last.at)
                              THEN "standby" ELSE "maintenance"

C7_Witness_NegativeDemand ==
    /\ last.called
    /\ last.service_demand < 0
    /\ StatusCount(last.decisions, "standby") >= 1
    /\ StatusCount(last.decisions, "maintenance") >= 1

C7_Witness_EmptyFleet ==
    last.called /\ last.trainsets = <<>> /\ last.decisions = <<>> /\ last.service_demand > 0

-----------------------------------------------------------------------------
(* SpecReady: is_service_ready on one vehicle, over every certificate and
   job-card list within the bounds *)

RECURSIVE SeqsUpTo(_, _)
SeqsUpTo(S, n) ==
    IF n = 0 THEN {<<>>}
    ELSE LET shorter == SeqsUpTo(S, n - 1)
         IN shorter \cup {Append(q, x) : q \in {r \in shorter : Len(r) = n - 1}, x \in S}

\* expiry dates at, before and after the instants of the model
ProbeCertificates ==
    {FitnessCertificate("telecom", expiry, valid) : expiry \in 0..1, valid \in BOOLEAN}

ProbeJobCards ==
    {JobCard("JC", "TS-001", "open", priority, 4, 0) : priority \in {1, 2, 3, 5}}
    \cup {JobCard("JC", "TS-001", "in_progress", 1, 4, 0),
          JobCard("JC", "TS-001", "closed", 2, 4, 0)}

ProbeVehicles ==
    {[Profile(2, "TS-001") EXCEPT !.fitness_certificates = certs, !.job_cards = jobs] :
        certs \in SeqsUpTo(ProbeCertificates, MaxCerts),
        jobs \in SeqsUpTo(ProbeJobCards, MaxJobs)}

InitReady ==
    /\ now \in Instants
    /\ probe \in ProbeVehicles
    /\ probe_ready = <<>>
    /\ probe_score = NoScore
    /\ ingest = NoIngest
    /\ trainsets = <<>>
    /\ last = NoCall
    /\ prev = NoCall
    /\ result = NoResult

EvaluateReadiness ==
    /\ probe_ready = <<>>
    /\ probe_ready' = <<is_service_ready(probe, now)>>
    /\ UNCHANGED <<now, trainsets, last, prev, result, probe, probe_score, ingest>>

NextReady == EvaluateReadiness

SpecReady == InitReady /\ [][NextReady]_vars

\* C3: is_service_ready is true iff every attached certificate has is_valid = true
\* and an expiry strictly after the evaluation instant (vacuously with none), and
\* no job card is open with priority <= 2; cards that are in_progress or closed,
\* or open with priority 3..5, never make a vehicle not ready.
C3_ReadyIffCertsValidAndNoUrgentOpenJob ==
    probe_ready # <<>> =>
        LET certs == probe.fitness_certificates
            jobs == probe.job_cards
            certs_ok == \A c \in Positions(certs) :
                            certs[c].is_valid = TRUE /\ certs[c].expiry_date > now
            urgent == \E j \in Positions(jobs) :
                            jobs[j].status = "open" /\ jobs[j].priority \in {1, 2}
            harmless == \A j \in Positions(jobs) :
                            \/ jobs[j].status \in {"in_progress", "closed"}
                            \/ jobs[j].status = "open" /\ jobs[j].priority \in 3..5
        IN /\ probe_ready[1] = (certs_ok /\ ~urgent)
           /\ (certs_ok /\ harmless) => probe_ready[1] = TRUE

C3_Witness_ReadyWithHarmlessCards ==
    /\ probe_ready = <<TRUE>>
    /\ Len(probe.fitness_certificates) >= 1
    /\ \E j \in Positions(probe.job_cards) :
          probe.job_cards[j].status = "in_progress" /\ probe.job_cards[j].priority = 1
    /\ \E j \in Positions(probe.job_cards) :
          probe.job_cards[j].status = "open" /\ probe.job_cards[j].priority = 3

C3_Witness_ExpiringNow ==
    /\ probe_ready = <<FALSE>>
    /\ probe.job_cards = <<>>
    /\ Len(probe.fitness_certificates) = 1
    /\ probe.fitness_certificates[1].is_valid
    /\ probe.fitness_certificates[1].expiry_date = now

-----------------------------------------------------------------------------
(* SpecRepeat: one scheduler called again and again while the clock advances *)

InitRepeat ==
    /\ now = 0
    /\ trainsets \in Fleets(MaxSmallFleet)
    /\ last = NoCall
    /\ prev = NoCall
    /\ result = NoResult
    /\ probe = NoProbe
    /\ probe_ready = <<>>
    /\ probe_score = NoScore
    /\ ingest = NoIngest

\* demands that leave vehicles on standby, none in service, and every ready one in service
RepeatDemands == {0, 1, MaxDemand}

RepeatInduction ==
    \E service_demand \in RepeatDemands :
        /\ Call(service_demand)
        /\ prev' = last
        /\ UNCHANGED <<now, trainsets, result, probe, probe_ready, probe_score, ingest>>

NextRepeat == Tick \/ RepeatInduction

SpecRepeat == InitRepeat /\ [][NextRepeat]_vars

-----------------------------------------------------------------------------
(* Scenario Engine: ScenarioEngine.run_scenario *)

(* Python objects are shared by reference.  The object store `heap` is a
   sequence of Trainset values, a reference is an index into it, and a list of
   trainsets is a sequence of references.  A perturbation returns the store as
   it has left it together with the list it returns. *)

Refs(list) == {list[i] : i \in Positions(list)}
Deref(heap, list) == [i \in Positions(list) |-> heap[list[i]]]

\* trainsets.copy(): a new list of the same objects
list_copy(list) == list

\* (variant: copy.copy, the new list shares the Trainset objects)
deepcopy_shared(heap, list) == [heap |-> heap, list |-> list]
\* copy.deepcopy(trainsets): new objects, equal in value
deepcopy(heap, list) ==
    [heap |-> heap \o Deref(heap, list),
     list |-> [i \in Positions(list) |-> Len(heap) + i]]

\* for trainset in modified_trainsets: ...  The objects of the list take the values
\* after[r]; every other object of the store keeps its value.
ForEach(copy, after) ==
    [heap |-> [r \in DOMAIN copy.heap |->
                  IF r \in Refs(copy.list) THEN after[r] ELSE copy.heap[r]],
     list |-> copy.list]

\* (variant: the enum member is compared with the string by identity and never matches)
certificate_type_matches_never(cert, cert_type) == FALSE
\* cert.certificate_type == cert_type
certificate_type_matches(cert, cert_type) == cert.certificate_type = cert_type

\* cert.is_valid = False; cert.expiry_date = datetime.now() - timedelta(days=1)
expire_certificates(trainset, cert_type, at) ==
    [trainset EXCEPT !.fitness_certificates =
        [c \in Positions(trainset.fitness_certificates) |->
            IF certificate_type_matches(trainset.fitness_certificates[c], cert_type)
            THEN [trainset.fitness_certificates[c] EXCEPT !.is_valid = FALSE,
                                                          !.expiry_date = at - 1]
            ELSE trainset.fitness_certificates[c]]]

_simulate_certificate_expiry(heap, list, parameters, at) ==
    LET modified_trainsets == deepcopy(heap, list)
    IN ForEach(modified_trainsets,
               [r \in DOMAIN modified_trainsets.heap |->
                   LET trainset == modified_trainsets.heap[r]
                   IN IF trainset.trainset_id \in parameters.trainset_ids
                      THEN expire_certificates(trainset, parameters.certificate_type, at)
                      ELSE trainset])

\* trainset.job_cards.append(JobCard(...))
append_job_card(trainset, prefix, priority, hours, at) ==
    [trainset EXCEPT !.job_cards =
        Append(trainset.job_cards,
               JobCard(prefix, trainset.trainset_id, "open", priority, hours, at))]

\* (variant: a non-empty id list marks every vehicle of the snapshot)
_simulate_emergency_maintenance_all(heap, list, parameters, at) ==
    LET modified_trainsets == deepcopy(heap, list)
    IN ForEach(modified_trainsets,
               [r \in DOMAIN modified_trainsets.heap |->
                   LET trainset == modified_trainsets.heap[r]
                   IN IF parameters.trainset_ids # {}
                      THEN append_job_card(trainset, "EMRG", 1, parameters.maintenance_hours, at)
                      ELSE trainset])
\* (variant: the job card carries the default hours, not the supplied ones)
_simulate_emergency_maintenance_default_hours(heap, list, parameters, at) ==
    LET modified_trainsets == deepcopy(heap, list)
    IN ForEach(modified_trainsets,
               [r \in DOMAIN modified_trainsets.heap |->
                   LET trainset == modified_trainsets.heap[r]
                   IN IF trainset.trainset_id \in parameters.trainset_ids
                      THEN append_job_card(trainset, "EMRG", 1, 8, at)
                      ELSE trainset])
_simulate_emergency_maintenance(heap, list, parameters, at) ==
    LET modified_trainsets == deepcopy(heap, list)
    IN ForEach(modified_trainsets,
               [r \in DOMAIN modified_trainsets.heap |->
                   LET trainset == modified_trainsets.heap[r]
                   IN IF trainset.trainset_id \in parameters.trainset_ids
                      THEN append_job_card(trainset, "EMRG", 1, parameters.maintenance_hours, at)
                      ELSE trainset])

\* (variant: under increased demand the open job cards are deferred)
_simulate_increased_demand_deferring(heap, list, parameters, at) ==
    LET modified_trainsets == deepcopy(heap, list)
    IN ForEach(modified_trainsets,
               [r \in DOMAIN modified_trainsets.heap |->
                   [modified_trainsets.heap[r] EXCEPT !.job_cards = <<>>]])
_simulate_increased_demand(heap, list, parameters, at) == deepcopy(heap, list)

\* (variant: the job card is attached but the status is left as it was)
_simulate_equipment_failure_card_only(heap, list, parameters, at) ==
    LET modified_trainsets == deepcopy(heap, list)
    IN ForEach(modified_trainsets,
               [r \in DOMAIN modified_trainsets.heap |->
                   LET trainset == modified_trainsets.heap[r]
                   IN IF Some(trainset.trainset_id) = parameters.trainset_id
                      THEN append_job_card(trainset, "FAIL", 1, parameters.repair_hours, at)
                      ELSE trainset])
\* parameters.get('trainset_id') is None when the key is absent
_simulate_equipment_failure(heap, list, parameters, at) ==
    LET modified_trainsets == deepcopy(heap, list)
    IN ForEach(modified_trainsets,
               [r \in DOMAIN modified_trainsets.heap |->
                   LET trainset == modified_trainsets.heap[r]
                   IN IF Some(trainset.trainset_id) = parameters.trainset_id
                      THEN append_job_card([trainset EXCEPT !.current_status = "maintenance"],
                                           "FAIL", 1, parameters.repair_hours, at)
                      ELSE trainset])

\* (variant: the inspection card gets priority 3)
_simulate_weather_impact_low_priority(heap, list, parameters, at) ==
    LET modified_trainsets == deepcopy(heap, list)
    IN ForEach(modified_trainsets,
               [r \in DOMAIN modified_trainsets.heap |->
                   LET trainset == modified_trainsets.heap[r]
                   IN IF /\ trainset.stabling_bay # None
                         /\ trainset.stabling_bay[1] \in parameters.affected_bays
                      THEN append_job_card(trainset, "WTHR", 3,
                                           parameters.impact_duration_hours, at)
                      ELSE trainset])
\* trainset.stabling_bay in affected_bays (a list of bay numbers)
_simulate_weather_impact(heap, list, parameters, at) ==
    LET modified_trainsets == deepcopy(heap, list)
    IN ForEach(modified_trainsets,
               [r \in DOMAIN modified_trainsets.heap |->
                   LET trainset == modified_trainsets.heap[r]
                   IN IF /\ trainset.stabling_bay # None
                         /\ trainset.stabling_bay[1] \in parameters.affected_bays
                      THEN append_job_card(trainset, "WTHR", 2,
                                           parameters.impact_duration_hours, at)
                      ELSE trainset])

\* for field, value in changes.items(): if hasattr(trainset, field): setattr(...)
RECURSIVE apply_changes(_, _)
apply_changes(trainset, changes) ==
    IF changes = <<>> THEN trainset
    ELSE LET field == Head(changes)[1]
             value == Head(changes)[2]
         IN apply_changes(IF field \in DOMAIN trainset
                          THEN [trainset EXCEPT ![field] = value]
                          ELSE trainset,
                          Tail(changes))

\* for modification in parameters.get('modifications', []): ...
RECURSIVE apply_modifications(_, _)
apply_modifications(copy, modifications) ==
    IF modifications = <<>> THEN copy
    ELSE apply_modifications(
            ForEach(copy,
                    [r \in DOMAIN copy.heap |->
                        IF Some(copy.heap[r].trainset_id) = Head(modifications).trainset_id
                        THEN apply_changes(copy.heap[r], Head(modifications).changes)
                        ELSE copy.heap[r]]),
            Tail(modifications))

_apply_custom_scenario(heap, list, parameters, at) ==
    apply_modifications(deepcopy(heap, list), parameters.modifications)

\* Attributes hasattr finds on a Trainset that are no fields of the model: its
\* method and what BaseModel provides
NonFieldAttributes == {"is_service_ready", "dict", "copy"}
hasattr(trainset, field) == field \in DOMAIN trainset \/ field \in NonFieldAttributes
\* BaseModel.__setattr__ raises ValueError ('object has no field') for a name
\* that is not a field of the model
setattr_raises(trainset, field) == field \notin DOMAIN trainset
changes_raise(trainset, changes) ==
    \E c \in Positions(changes) :
        hasattr(trainset, changes[c][1]) /\ setattr_raises(trainset, changes[c][1])

\* whether the loop of _apply_custom_scenario ends in an exception: some
\* modification reaches a vehicle with a change that setattr rejects
RECURSIVE modifications_raise(_, _)
modifications_raise(copy, modifications) ==
    IF modifications = <<>> THEN FALSE
    ELSE \/ \E k \in Positions(copy.list) :
               /\ Some(copy.heap[copy.list[k]].trainset_id) = Head(modifications).trainset_id
               /\ changes_raise(copy.heap[copy.list[k]], Head(modifications).changes)
         \/ modifications_raise(apply_modifications(copy, <<Head(modifications)>>),
                                Tail(modifications))

base_scenarios ==
    {"certificate_expiry", "emergency_maintenance", "increased_demand",
     "equipment_failure", "weather_impact"}

\* (variant: only the kind "custom" reaches the custom mutator, any other unknown
\* kind leaves the copy as it is)
perturb_unknown_ignored(scenario_type, heap, list, parameters, at) ==
    CASE scenario_type = "certificate_expiry" ->
            _simulate_certificate_expiry(heap, list, parameters, at)
      [] scenario_type = "emergency_maintenance" ->
            _simulate_emergency_maintenance(heap, list, parameters, at)
      [] scenario_type = "equipment_failure" ->
            _simulate_equipment_failure(heap, list, parameters, at)
      [] scenario_type = "weather_impact" ->
            _simulate_weather_impact(heap, list, parameters, at)
      [] scenario_type = "custom" -> _apply_custom_scenario(heap, list, parameters, at)
      [] OTHER -> _simulate_increased_demand(heap, list, parameters, at)
\* self.base_scenarios[scenario_type](trainsets, parameters), else the custom mutator
perturb(scenario_type, heap, list, parameters, at) ==
    CASE scenario_type = "certificate_expiry" ->
            _simulate_certificate_expiry(heap, list, parameters, at)
      [] scenario_type = "emergency_maintenance" ->
            _simulate_emergency_maintenance(heap, list, parameters, at)
      [] scenario_type = "increased_demand" ->
            _simulate_increased_demand(heap, list, parameters, at)
      [] scenario_type = "equipment_failure" ->
            _simulate_equipment_failure(heap, list, parameters, at)
      [] scenario_type = "weather_impact" ->
            _simulate_weather_impact(heap, list, parameters, at)
      [] OTHER -> _apply_custom_scenario(heap, list, parameters, at)

(* Comparator: ScenarioEngine._compare_allocations *)

\* counts[status] = counts.get(status, 0) + 1: a dict keyed by the statuses that occur
status_counts(decisions) ==
    [status \in {decisions[i].recommended_status : i \in Positions(decisions)} |->
        Cardinality({i \in Positions(decisions) : decisions[i].recommended_status = status})]

\* counts.get(status, 0)
count_or_zero(counts, status) == IF status \in DOMAIN counts THEN counts[status] ELSE 0

\* {d.trainset_id: d.recommended_status for d in decisions}: a later entry overwrites
status_by_id(decisions) ==
    [id \in Ids(decisions) |->
        LET k == CHOOSE k \in Positions(decisions) :
                    /\ decisions[k].trainset_id = id
                    /\ \A m \in Positions(decisions) :
                          decisions[m].trainset_id = id => m <= k
        IN decisions[k].recommended_status]

\* scenario_dict.get(trainset_id): None when the id is absent
status_or_none(dict, id) == IF id \in DOMAIN dict THEN Some(dict[id]) ELSE None

\* (variant: an entry for every id of the baseline, changed or not)
RECURSIVE changed_from_all(_, _, _, _)
changed_from_all(baseline, k, baseline_dict, scenario_dict) ==
    IF k > Len(baseline) THEN <<>>
    ELSE LET id == baseline[k].trainset_id
             first == \A m \in 1..(k - 1) : baseline[m].trainset_id # id
         IN (IF first
             THEN <<[trainset_id |-> id,
                     baseline_status |-> baseline_dict[id],
                     scenario_status |-> status_or_none(scenario_dict, id)]>>
             ELSE <<>>)
            \o changed_from_all(baseline, k + 1, baseline_dict, scenario_dict)

\* for trainset_id in baseline_dict (keys in order of first insertion): append when changed
RECURSIVE changed_from(_, _, _, _)
changed_from(baseline, k, baseline_dict, scenario_dict) ==
    IF k > Len(baseline) THEN <<>>
    ELSE LET id == baseline[k].trainset_id
             first == \A m \in 1..(k - 1) : baseline[m].trainset_id # id
         IN (IF first /\ Some(baseline_dict[id]) # status_or_none(scenario_dict, id)
             THEN <<[trainset_id |-> id,
                     baseline_status |-> baseline_dict[id],
                     scenario_status |-> status_or_none(scenario_dict, id)]>>
             ELSE <<>>)
            \o changed_from(baseline, k + 1, baseline_dict, scenario_dict)

\* (variant: the last decisions are matched by position in the two sequences)
_compare_allocations_by_position(baseline, scenario) ==
    LET baseline_counts == status_counts(baseline)
        scenario_counts == status_counts(scenario)
        all_statuses == DOMAIN baseline_counts \cup DOMAIN scenario_counts
        differs(k) ==
            \/ k > Len(scenario)
            \/ baseline[k].recommended_status # scenario[k].recommended_status
        changed_trainsets ==
            SelectSeq([k \in Positions(baseline) |->
                          [trainset_id |-> baseline[k].trainset_id,
                           baseline_status |-> baseline[k].recommended_status,
                           scenario_status |->
                               IF k > Len(scenario) THEN None
                               ELSE Some(scenario[k].recommended_status),
                           differs |-> differs(k)]],
                      LAMBDA entry : entry.differs)
    IN [baseline_counts |-> baseline_counts,
        scenario_counts |-> scenario_counts,
        differences |-> [status \in all_statuses |->
                            count_or_zero(scenario_counts, status)
                            - count_or_zero(baseline_counts, status)],
        changed_trainsets |-> [k \in Positions(changed_trainsets) |->
                                  [trainset_id |-> changed_trainsets[k].trainset_id,
                                   baseline_status |-> changed_trainsets[k].baseline_status,
                                   scenario_status |-> changed_trainsets[k].scenario_status]],
        total_changes |-> Len(changed_trainsets)]

\* (variant: the difference is taken baseline minus scenario)
_compare_allocations_baseline_minus_scenario(baseline, scenario) ==
    LET baseline_counts == status_counts(baseline)
        scenario_counts == status_counts(scenario)
        all_statuses == DOMAIN baseline_counts \cup DOMAIN scenario_counts
        changed_trainsets ==
            changed_from(baseline, 1, status_by_id(baseline), status_by_id(scenario))
    IN [baseline_counts |-> baseline_counts,
        scenario_counts |-> scenario_counts,
        differences |-> [status \in all_statuses |->
                            count_or_zero(baseline_counts, status)
                            - count_or_zero(scenario_counts, status)],
        changed_trainsets |-> changed_trainsets,
        total_changes |-> Len(changed_trainsets)]

_compare_allocations(baseline, scenario) ==
    LET baseline_counts == status_counts(baseline)
        scenario_counts == status_counts(scenario)
        all_statuses == DOMAIN baseline_counts \cup DOMAIN scenario_counts
        changed_trainsets ==
            changed_from(baseline, 1, status_by_id(baseline), status_by_id(scenario))
    IN [baseline_counts |-> baseline_counts,
        scenario_counts |-> scenario_counts,
        differences |-> [status \in all_statuses |->
                            count_or_zero(scenario_counts, status)
                            - count_or_zero(baseline_counts, status)],
        changed_trainsets |-> changed_trainsets,
        total_changes |-> Len(changed_trainsets)]

\* the list handed to the baseline run: self.scheduler.optimize_induction(trainsets.copy())
baseline_input(heap, list) == Deref(heap, list_copy(list))

\* The outcome of run_scenario(trainsets, scenario_type, parameters) at instant `at`:
\* the exception that ends it, if any; otherwise the returned dict; the perturbed
\* list, and the caller's list as the call leaves it.
run_scenario(ts, scenario_type, parameters, at) ==
    LET heap == ts
        list == [i \in Positions(ts) |-> i]
        perturbed == perturb(scenario_type, heap, list, parameters, at)
        baseline_decisions ==
            optimize_induction(baseline_input(heap, list), default_service_demand, at)
        modified_trainsets == Deref(perturbed.heap, perturbed.list)
        scenario_decisions == optimize_induction(modified_trainsets, default_service_demand, at)
    IN [raised |-> IF /\ scenario_type \notin base_scenarios
                      /\ modifications_raise(deepcopy(heap, list), parameters.modifications)
                   THEN Some("ValueError") ELSE None,
        returned |-> [scenario_type |-> scenario_type,
                      parameters |-> parameters,
                      baseline_decisions |-> baseline_decisions,
                      scenario_decisions |-> scenario_decisions,
                      comparison |-> _compare_allocations(baseline_decisions, scenario_decisions),
                      timestamp |-> at],
        modified_trainsets |-> modified_trainsets,
        caller_trainsets |-> Deref(perturbed.heap, list)]

-----------------------------------------------------------------------------
(* SpecScenario: one run_scenario request on a snapshot *)

UnknownId == "TS-999"

\* parameters.get(key, default): an absent key is the default value
DefaultParameters ==
    [trainset_ids |-> {}, certificate_type |-> "telecom", maintenance_hours |-> 8,
     trainset_id |-> None, repair_hours |-> 12,
     affected_bays |-> {}, impact_duration_hours |-> 24, modifications |-> <<>>]

IdLists == {{}, {TrainsetId(1)}, {TrainsetId(2), UnknownId}, {TrainsetId(1), TrainsetId(2)}}

Modification(id, changes) == [trainset_id |-> Some(id), changes |-> changes]

ModificationLists ==
    {<<>>,
     <<Modification(TrainsetId(1), <<<<"current_mileage", 0>>>>)>>,
     <<Modification(TrainsetId(2), <<<<"current_status", "maintenance">>,
                                     <<"no_such_field", 1>>>>)>>,
     <<Modification(TrainsetId(1), <<<<"fitness_certificates",
                                       <<FitnessCertificate("telecom", FarExpiry, FALSE)>> >>>>),
       Modification(UnknownId, <<<<"current_mileage", 0>>>>)>>,
     <<Modification(TrainsetId(2), <<<<"current_mileage", 100000>>,
                                     <<"is_service_ready", 1>>>>)>>}

ScenarioRequests ==
    {[scenario_type |-> "certificate_expiry",
      parameters |-> [DefaultParameters EXCEPT !.trainset_ids = ids, !.certificate_type = type]] :
        ids \in IdLists, type \in {"telecom", "rolling_stock"}}
    \cup
    {[scenario_type |-> "emergency_maintenance",
      parameters |-> [DefaultParameters EXCEPT !.trainset_ids = ids, !.maintenance_hours = hours]] :
        ids \in IdLists, hours \in {8, 3}}
    \cup
    {[scenario_type |-> "increased_demand", parameters |-> DefaultParameters]}
    \cup
    {[scenario_type |-> "equipment_failure",
      parameters |-> [DefaultParameters EXCEPT !.trainset_id = id]] :
        id \in {None, Some(TrainsetId(1)), Some(TrainsetId(2)), Some(UnknownId)}}
    \cup
    {[scenario_type |-> "weather_impact",
      parameters |-> [DefaultParameters EXCEPT !.affected_bays = bays,
                                               !.impact_duration_hours = hours]] :
        bays \in {{}, {5}, {4, 6}}, hours \in {24, 6}}
    \cup
    {[scenario_type |-> type,
      parameters |-> [DefaultParameters EXCEPT !.modifications = mods]] :
        type \in {"custom", "solar_flare"}, mods \in ModificationLists}

InitScenario ==
    /\ now \in Instants
    /\ trainsets \in Fleets(MaxSmallFleet)
    /\ last = NoCall
    /\ prev = NoCall
    /\ result = NoResult
    /\ probe = NoProbe
    /\ probe_ready = <<>>
    /\ probe_score = NoScore
    /\ ingest = NoIngest

\* One request per behaviour: the engine keeps nothing between requests but its
\* scheduler and its dispatch table, so a second request starts from the same state.
RunScenario ==
    /\ ~result.called
    /\ result.raised = None
    /\ \E request \in ScenarioRequests :
          LET outcome == run_scenario(trainsets, request.scenario_type, request.parameters, now)
          IN /\ result' = IF outcome.raised # None
                          THEN [called |-> FALSE,
                                raised |-> outcome.raised,
                                trainsets |-> trainsets,
                                at |-> now,
                                request |-> request]
                          ELSE [called |-> TRUE,
                                raised |-> None,
                                trainsets |-> trainsets,
                                at |-> now,
                                returned |-> outcome.returned,
                                modified_trainsets |-> outcome.modified_trainsets]
             /\ trainsets' = outcome.caller_trainsets
    /\ UNCHANGED <<now, last, prev, probe, probe_ready, probe_score, ingest>>

NextScenario == RunScenario

SpecScenario == InitScenario /\ [][NextScenario]_vars

\* the vehicles of the request's input that a list of ids names
Listed(ids) == {i \in Positions(result.trainsets) : result.trainsets[i].trainset_id \in ids}
HasCertificate(trainset, type) ==
    \E c \in Positions(trainset.fitness_certificates) :
        trainset.fitness_certificates[c].certificate_type = type
\* the statuses a decision sequence gives the vehicle named id
StatusesOf(decisions, id) ==
    {decisions[k].recommended_status :
        k \in {m \in Positions(decisions) : decisions[m].trainset_id = id}}

\* C8: run_scenario leaves the caller's vehicle list as it was (certificates, job
\* cards, status and every other field of every vehicle), for built-in and custom
\* kinds alike, and the baseline decisions are those of optimize_induction on the
\* unperturbed vehicles.
C8_CallerSnapshotAndBaselineUntouched ==
    /\ result.called =>
          /\ trainsets = result.trainsets
          /\ result.returned.baseline_decisions
               = optimize_induction(result.trainsets, default_service_demand, result.at)
    /\ result.raised # None => trainsets = result.trainsets

C8_Witness_PerturbedCopyDiffers ==
    /\ result.called
    /\ result.returned.scenario_type \notin base_scenarios
    /\ result.modified_trainsets # result.trainsets
    /\ result.returned.scenario_decisions # result.returned.baseline_decisions
    /\ trainsets = result.trainsets

\* C9 as stated: after certificate_expiry for category telecom, no listed vehicle
\* is assigned revenue_service by the allocation on the perturbed snapshot.
C9_Original_ListedNeverInService ==
    (/\ result.called
     /\ result.returned.scenario_type = "certificate_expiry"
     /\ result.returned.parameters.certificate_type = "telecom")
    => \A i \in Listed(result.returned.parameters.trainset_ids) :
          "revenue_service" \notin
              StatusesOf(result.returned.scenario_decisions, result.trainsets[i].trainset_id)

\* C9 (amended): after certificate_expiry for category telecom, a listed vehicle
\* that carries at least one telecom certificate is not service-ready in the
\* perturbed snapshot and is assigned maintenance, never revenue_service, even
\* if the baseline assigned it revenue_service.
C9_ListedWithTelecomCertNeverInService ==
    (/\ result.called
     /\ result.returned.scenario_type = "certificate_expiry"
     /\ result.returned.parameters.certificate_type = "telecom")
    => \A i \in Listed(result.returned.parameters.trainset_ids) :
          HasCertificate(result.trainsets[i], "telecom") =>
              /\ ~is_service_ready(result.modified_trainsets[i], result.at)
              /\ StatusesOf(result.returned.scenario_decisions,
                            result.trainsets[i].trainset_id) = {"maintenance"}

C9_Witness_ServiceTurnsMaintenance ==
    /\ result.called
    /\ result.returned.scenario_type = "certificate_expiry"
    /\ result.returned.parameters.certificate_type = "telecom"
    /\ \E i \in Listed(result.returned.parameters.trainset_ids) :
          /\ HasCertificate(result.trainsets[i], "telecom")
          /\ StatusesOf(result.returned.baseline_decisions,
                        result.trainsets[i].trainset_id) = {"revenue_service"}
          /\ StatusesOf(result.returned.scenario_decisions,
                        result.trainsets[i].trainset_id) = {"maintenance"}

-----------------------------------------------------------------------------
(* Properties of the perturbations (SpecScenario) *)

\* the vehicle ids a request names: the id list, the single id, or the ids of the
\* modifications, as the kind of the request reads them
NamedIds(returned) ==
    LET parameters == returned.parameters
    IN CASE returned.scenario_type \in {"certificate_expiry", "emergency_maintenance"} ->
                parameters.trainset_ids
         [] returned.scenario_type = "equipment_failure" ->
                {parameters.trainset_id[k] : k \in Positions(parameters.trainset_id)}
         [] returned.scenario_type \in {"increased_demand", "weather_impact"} -> {}
         [] OTHER ->
                {parameters.modifications[m].trainset_id[1] :
                    m \in Positions(parameters.modifications)}

SelectsById(returned) == returned.scenario_type \notin {"increased_demand", "weather_impact"}

\* C11: an id that no vehicle of the snapshot has is a silent no-op: the request
\* returns, every vehicle it does not name is unchanged in the perturbed snapshot,
\* and when it names no existing vehicle the scenario decisions equal the baseline.
C11_UnknownIdIsNoOp ==
    /\ (result.called /\ SelectsById(result.returned)) =>
          /\ Len(result.modified_trainsets) = Len(result.trainsets)
          /\ \A i \in Positions(result.trainsets) :
                result.trainsets[i].trainset_id \notin NamedIds(result.returned) =>
                    result.modified_trainsets[i] = result.trainsets[i]
          /\ NamedIds(result.returned) \cap Ids(result.trainsets) = {} =>
                /\ result.modified_trainsets = result.trainsets
                /\ result.returned.scenario_decisions = result.returned.baseline_decisions
                /\ result.returned.comparison.total_changes = 0
    /\ result.raised # None =>
          NamedIds(result.request) \cap Ids(result.trainsets) # {}

C11_Witness_OnlyUnknownIdsNamed ==
    /\ result.called
    /\ result.returned.scenario_type = "emergency_maintenance"
    /\ UnknownId \in NamedIds(result.returned)
    /\ NamedIds(result.returned) \cap Ids(result.trainsets) = {}
    /\ Len(result.trainsets) >= 1
    /\ result.returned.scenario_decisions = result.returned.baseline_decisions
    /\ \E k \in Positions(result.returned.scenario_decisions) :
          result.returned.scenario_decisions[k].recommended_status = "revenue_service"

\* C12: a kind that is not built in is handled by the custom mutator: every
\* override of a field the vehicle has is applied to the named vehicle of the
\* perturbed snapshot; with no modifications the perturbed snapshot equals the
\* input, and the result carries baseline decisions, scenario decisions and a
\* comparison.  (The modification lists of the model write each field once.)
C12_UnknownKindIsCustom ==
    /\ result.raised # None => result.request.parameters.modifications # <<>>
    /\ (result.called /\ result.returned.scenario_type \notin base_scenarios) =>
        LET modifications == result.returned.parameters.modifications
        IN /\ {"baseline_decisions", "scenario_decisions", "comparison"}
                 \subseteq DOMAIN result.returned
           /\ Len(result.returned.baseline_decisions) = Len(result.trainsets)
           /\ Len(result.returned.scenario_decisions) = Len(result.trainsets)
           /\ \A m \in Positions(modifications), i \in Positions(result.trainsets) :
                 Some(result.trainsets[i].trainset_id) = modifications[m].trainset_id =>
                    \A c \in Positions(modifications[m].changes) :
                        LET field == modifications[m].changes[c][1]
                            value == modifications[m].changes[c][2]
                        IN field \in DOMAIN result.trainsets[i] =>
                              result.modified_trainsets[i][field] = value
           /\ modifications = <<>> =>
                 /\ result.modified_trainsets = result.trainsets
                 /\ result.returned.scenario_decisions = result.returned.baseline_decisions
                 /\ result.returned.comparison.total_changes = 0

C12_Witness_UnknownKindNoModifications ==
    /\ result.called
    /\ result.returned.scenario_type = "solar_flare"
    /\ result.returned.parameters.modifications = <<>>
    /\ Len(result.trainsets) = 2
    /\ result.modified_trainsets = result.trainsets
    /\ Len(result.returned.scenario_decisions) = 2

C12_Witness_UnknownKindModifies ==
    /\ result.called
    /\ result.returned.scenario_type = "solar_flare"
    /\ result.modified_trainsets # result.trainsets
    /\ result.returned.comparison.total_changes >= 1

(* Properties of the comparator (SpecScenario) *)

\* the sum of the values of a dict
RECURSIVE SumValues(_)
SumValues(dict) ==
    IF DOMAIN dict = {} THEN 0
    ELSE LET key == CHOOSE key \in DOMAIN dict : TRUE
         IN dict[key] + SumValues([other \in DOMAIN dict \ {key} |-> dict[other]])
Occurring(decisions) == {decisions[k].recommended_status : k \in Positions(decisions)}

\* C13: the per-status counts of the baseline run and of the scenario run both sum
\* to the number of input vehicles; the differences are defined for exactly the
\* statuses occurring in either run, differences[s] is the scenario count of s
\* minus the baseline count of s, and the differences sum to zero.
C13_CountsAndDifferences ==
    result.called =>
        LET comparison == result.returned.comparison
            baseline == result.returned.baseline_decisions
            scenario == result.returned.scenario_decisions
        IN /\ SumValues(comparison.baseline_counts) = Len(result.trainsets)
           /\ SumValues(comparison.scenario_counts) = Len(result.trainsets)
           /\ DOMAIN comparison.baseline_counts = Occurring(baseline)
           /\ DOMAIN comparison.scenario_counts = Occurring(scenario)
           /\ \A s \in Occurring(baseline) :
                 comparison.baseline_counts[s] = StatusCount(baseline, s)
           /\ \A s \in Occurring(scenario) :
                 comparison.scenario_counts[s] = StatusCount(scenario, s)
           /\ DOMAIN comparison.differences = Occurring(baseline) \cup Occurring(scenario)
           /\ \A s \in DOMAIN comparison.differences :
                 comparison.differences[s] = StatusCount(scenario, s) - StatusCount(baseline, s)
           /\ SumValues(comparison.differences) = 0

C13_Witness_ServiceLostToMaintenance ==
    /\ result.called
    /\ Len(result.trainsets) = 2
    /\ "maintenance" \in DOMAIN result.returned.comparison.differences
    /\ result.returned.comparison.differences["maintenance"] = 1
    /\ result.returned.comparison.differences["revenue_service"] = 0 - 1

\* C14: the changed list has one entry for each vehicle id whose recommended status
\* in the baseline run differs from its status in the scenario run, carrying both
\* statuses, and no entry for any other id; total_changes is the number of entries.
C14_ChangedListIsExact ==
    result.called =>
        LET comparison == result.returned.comparison
            changed == comparison.changed_trainsets
            baseline == result.returned.baseline_decisions
            scenario == result.returned.scenario_decisions
        IN /\ \A id \in Ids(result.trainsets) :
                 (StatusesOf(baseline, id) # StatusesOf(scenario, id))
                     <=> (\E k \in Positions(changed) : changed[k].trainset_id = id)
           /\ \A k \in Positions(changed) :
                 /\ changed[k].trainset_id \in Ids(result.trainsets)
                 /\ StatusesOf(baseline, changed[k].trainset_id) = {changed[k].baseline_status}
                 /\ \E status \in StatusesOf(scenario, changed[k].trainset_id) :
                       changed[k].scenario_status = Some(status)
                 /\ \A j \in Positions(changed) :
                       changed[j].trainset_id = changed[k].trainset_id => j = k
           /\ comparison.total_changes = Len(changed)

C14_Witness_OneChangedOneNot ==
    /\ result.called
    /\ Len(result.trainsets) = 2
    /\ result.returned.comparison.total_changes = 1
    /\ \E k \in Positions(result.returned.baseline_decisions) :
          /\ result.returned.baseline_decisions[k].recommended_status = "revenue_service"
          /\ StatusesOf(result.returned.scenario_decisions,
                        result.returned.baseline_decisions[k].trainset_id) = {"revenue_service"}

Orderings(n) == {p \in [1..n -> 1..n] : \A i, j \in 1..n : p[i] = p[j] => i = j}
Permuted(seq, p) == [k \in Positions(seq) |-> seq[p[k]]]
Entries(seq) == {seq[k] : k \in Positions(seq)}

\* C15: comparing any permutation of the baseline decisions with any permutation
\* of the scenario decisions gives the same per-status counts, the same
\* differences and the same set of changed vehicles with their statuses.
C15_ComparatorOrderIndependent ==
    result.called =>
        LET baseline == result.returned.baseline_decisions
            scenario == result.returned.scenario_decisions
            comparison == result.returned.comparison
        IN \A p \in Orderings(Len(baseline)), q \in Orderings(Len(scenario)) :
              LET permuted == _compare_allocations(Permuted(baseline, p), Permuted(scenario, q))
              IN /\ permuted.baseline_counts = comparison.baseline_counts
                 /\ permuted.scenario_counts = comparison.scenario_counts
                 /\ permuted.differences = comparison.differences
                 /\ Entries(permuted.changed_trainsets) = Entries(comparison.changed_trainsets)
                 /\ permuted.total_changes = comparison.total_changes

C15_Witness_PermutationReordersChanges ==
    /\ result.called
    /\ result.returned.comparison.total_changes = 2
    /\ \E p \in Orderings(Len(result.returned.baseline_decisions)) :
          LET permuted == _compare_allocations(Permuted(result.returned.baseline_decisions, p),
                                               result.returned.scenario_decisions)
          IN /\ permuted.changed_trainsets # result.returned.comparison.changed_trainsets
             /\ Entries(permuted.changed_trainsets)
                   = Entries(result.returned.comparison.changed_trainsets)

(* Properties of the decisions' service hours (Spec) *)

\* C18: in every decision of optimize_induction the estimated service hours are
\* 16 exactly when the recommended status is revenue_service, and 0 for every
\* maintenance or standby decision.
C18_ServiceHoursFollowStatus ==
    last.called =>
        \A k \in Positions(last.decisions) :
            LET decision == last.decisions[k]
            IN /\ (decision.estimated_service_hours = 16)
                      <=> (decision.recommended_status = "revenue_service")
               /\ decision.recommended_status \in {"maintenance", "standby"} =>
                     decision.estimated_service_hours = 0

C18_Witness_AllThreeStatuses ==
    /\ last.called
    /\ \E i, j, k \in Positions(last.decisions) :
          /\ last.decisions[i].recommended_status = "revenue_service"
          /\ last.decisions[i].estimated_service_hours = 16
          /\ last.decisions[j].recommended_status = "standby"
          /\ last.decisions[j].estimated_service_hours = 0
          /\ last.decisions[k].recommended_status = "maintenance"
          /\ last.decisions[k].estimated_service_hours = 0

(* Properties of emergency_maintenance (SpecScenario) *)

\* C20: after emergency_maintenance every listed vehicle of the snapshot has its
\* former job cards followed by exactly one more, open, of priority 1 and with the
\* supplied hours, and is assigned maintenance in the scenario decisions; the job
\* cards of every vehicle not listed are unchanged.
C20_EmergencyJobCardOnListed ==
    (result.called /\ result.returned.scenario_type = "emergency_maintenance") =>
        LET parameters == result.returned.parameters
        IN /\ Len(result.modified_trainsets) = Len(result.trainsets)
           /\ \A i \in Positions(result.trainsets) :
                 LET before == result.trainsets[i].job_cards
                     after == result.modified_trainsets[i].job_cards
                 IN IF result.trainsets[i].trainset_id \in parameters.trainset_ids
                    THEN /\ Len(after) = Len(before) + 1
                         /\ SubSeq(after, 1, Len(before)) = before
                         /\ after[Len(after)].status = "open"
                         /\ after[Len(after)].priority = 1
                         /\ after[Len(after)].estimated_hours = parameters.maintenance_hours
                         /\ after[Len(after)].trainset_id = result.trainsets[i].trainset_id
                         /\ StatusesOf(result.returned.scenario_decisions,
                                       result.trainsets[i].trainset_id) = {"maintenance"}
                    ELSE after = before

C20_Witness_ListedServedVehicleGrounded ==
    /\ result.called
    /\ result.returned.scenario_type = "emergency_maintenance"
    /\ result.returned.parameters.maintenance_hours = 3
    /\ Len(result.trainsets) = 2
    /\ \E i, j \in Positions(result.trainsets) :
          /\ result.trainsets[i].trainset_id \in result.returned.parameters.trainset_ids
          /\ result.trainsets[j].trainset_id \notin result.returned.parameters.trainset_ids
          /\ StatusesOf(result.returned.baseline_decisions,
                        result.trainsets[i].trainset_id) = {"revenue_service"}
          /\ StatusesOf(result.returned.scenario_decisions,
                        result.trainsets[i].trainset_id) = {"maintenance"}
          /\ result.trainsets[j].job_cards # <<>>
          /\ result.modified_trainsets[j].job_cards = result.trainsets[j].job_cards

-----------------------------------------------------------------------------
(* SpecScore: _calculate_composite_score called on one vehicle, exceptions included *)

\* how a call ends: with a returned value, or with the exception it raised
Returned(value) == [raised |-> None, value |-> Some(value)]
Raised(exception) == [raised |-> Some(exception), value |-> None]

\* config/settings.yaml as ConfigLoader finds it: not there, or there with or
\* without the key fleet.total_trainsets
ConfigFiles == {"missing", "without_total_trainsets", "with_total_trainsets"}

\* ConfigLoader.get_total_trainsets through get_fleet_config and load_config:
\* open() of a missing file raises FileNotFoundError; otherwise the configured
\* value, 25 when the key is absent (the configured value is taken to be 25 too)
get_total_trainsets(config_file) ==
    IF config_file = "missing" THEN Raised("FileNotFoundError")
    ELSE Returned(total_trainsets)

\* The statements of _calculate_composite_score in their order; the first
\* exception ends the call.  current / required divides by zero when the contract
\* requires 0 hours; the settings file is read only under `if trainset.stabling_bay:`.
_calculate_composite_score_call(trainset, at, config_file) ==
    IF /\ trainset.branding_contract # None
       /\ trainset.branding_contract[1].required_exposure_hours = 0
    THEN Raised("ZeroDivisionError")
    ELSE IF /\ trainset.stabling_bay # None
            /\ trainset.stabling_bay # Some(0)
            /\ get_total_trainsets(config_file).raised # None
    THEN get_total_trainsets(config_file)
    ELSE Returned(_calculate_composite_score(trainset, at))

ScoreVehicles ==
    {[Profile(2, "TS-001") EXCEPT !.current_mileage = mileage,
                                  !.last_maintenance_date = maintained,
                                  !.fitness_certificates =
                                      <<FitnessCertificate("rolling_stock", FarExpiry, valid)>>,
                                  !.branding_contract = contract,
                                  !.stabling_bay = bay] :
        mileage \in {0, 25000, 50000, 100000, 150000},
        maintained \in {None, Some(0), Some(0 - 15), Some(0 - 60)},
        valid \in BOOLEAN,
        contract \in {None, Some(BrandingContract(100, 0)), Some(BrandingContract(100, 50)),
                      Some(BrandingContract(100, 200)), Some(BrandingContract(0, 0)),
                      Some(BrandingContract(0, 10))},
        bay \in {None, Some(0), Some(5), Some(25), Some(30)}}

InitScore ==
    /\ now \in Instants
    /\ probe \in ScoreVehicles
    /\ probe_ready = <<>>
    /\ probe_score = NoScore
    /\ ingest = NoIngest
    /\ trainsets = <<>>
    /\ last = NoCall
    /\ prev = NoCall
    /\ result = NoResult

ScoreProbe ==
    /\ ~probe_score.called
    /\ \E config_file \in ConfigFiles :
          probe_score' = [called |-> TRUE,
                          config_file |-> config_file,
                          outcome |-> _calculate_composite_score_call(probe, now, config_file)]
    /\ UNCHANGED <<now, trainsets, last, prev, result, probe, probe_ready, ingest>>

NextScore == ScoreProbe

SpecScore == InitScore /\ [][NextScore]_vars

\* C16: the scorer never raises: every call returns a number, also with a branding
\* contract whose required exposure hours are 0 and with a bay assigned; with
\* branding contract, last-maintenance date and stabling bay all absent the number
\* is the weighted sum with 0.5 for each of the three corresponding sub-scores.
C16_ScorerNeverRaises ==
    probe_score.called =>
        /\ probe_score.outcome.raised = None
        /\ probe_score.outcome.value # None
        /\ (/\ probe.branding_contract = None
            /\ probe.last_maintenance_date = None
            /\ probe.stabling_bay = None) =>
               probe_score.outcome.value =
                   Some(weight_service_readiness * readiness_score(probe, now)
                        + weight_mileage_balance * mileage_score(probe)
                        + (weight_branding_priority + weight_maintenance_urgency
                           + weight_stabling_efficiency) * HALF)

\* C17: for a vehicle with non-negative mileage, exposure hours and bay number the
\* composite score the scorer returns lies between 0 and 1 inclusive.
C17_ScoreWithinUnitInterval ==
    (/\ probe_score.called
     /\ probe_score.outcome.raised = None
     /\ probe.current_mileage >= 0
     /\ probe.branding_contract # None =>
           /\ probe.branding_contract[1].current_exposure_hours >= 0
           /\ probe.branding_contract[1].required_exposure_hours >= 0
     /\ probe.stabling_bay # None => probe.stabling_bay[1] >= 0) =>
        /\ probe_score.outcome.value[1] >= 0
        /\ probe_score.outcome.value[1] <= 100 * ONE

\* the settings file is in place and the call still ends in an exception
C16_Witness_ZeroRequiredHoursRaises ==
    /\ probe_score.called
    /\ probe_score.config_file = "with_total_trainsets"
    /\ probe.branding_contract = Some(BrandingContract(0, 10))
    /\ probe_score.outcome = Raised("ZeroDivisionError")

\* a ready vehicle with mileage 0 and an unused contract scores 1.05 and more
C17_Witness_LowMileageAboveOne ==
    /\ probe_score.called
    /\ probe_score.outcome.raised = None
    /\ probe.current_mileage = 0
    /\ probe.branding_contract = Some(BrandingContract(100, 0))
    /\ probe.last_maintenance_date = None
    /\ probe.stabling_bay = None
    /\ probe_score.outcome.value = Some(105 * ONE)

-----------------------------------------------------------------------------
(* SpecIngest: DataManager.refresh_all_data over three concurrent fetches *)

\* for i in range(1, 26)
known_trainsets == 25

\* Trainset(trainset_id=..., current_status="standby", current_mileage=45000 + i * 1000,
\*          fitness_certificates=[], job_cards=[]); the other fields keep their defaults
initial_trainset(i) ==
    [trainset_id |-> TrainsetId(i), current_status |-> "standby",
     current_mileage |-> 45000 + i * 1000, last_maintenance_date |-> None,
     fitness_certificates |-> <<>>, job_cards |-> <<>>,
     branding_contract |-> None, stabling_bay |-> None]

\* isinstance(data, list): an element of the gathered results is a list or an exception
is_list(data) == data.raised = None

\* for job_data in maximo_data: append a JobCard to the vehicle the record names, if known
RECURSIVE add_job_cards(_, _)
add_job_cards(merged, maximo_data) ==
    IF maximo_data = <<>> THEN merged
    ELSE LET job_data == Head(maximo_data)
         IN add_job_cards(
                [i \in Positions(merged) |->
                    IF merged[i].trainset_id = job_data.trainset_id
                    THEN [merged[i] EXCEPT !.job_cards =
                             Append(@, JobCard(job_data.job_id, job_data.trainset_id,
                                               job_data.status, job_data.priority,
                                               job_data.estimated_hours,
                                               job_data.created_date))]
                    ELSE merged[i]],
                Tail(maximo_data))

\* for cert_data in iot_data: append a FitnessCertificate to the vehicle named, if known
RECURSIVE add_fitness_certificates(_, _)
add_fitness_certificates(merged, iot_data) ==
    IF iot_data = <<>> THEN merged
    ELSE LET cert_data == Head(iot_data)
         IN add_fitness_certificates(
                [i \in Positions(merged) |->
                    IF merged[i].trainset_id = cert_data.trainset_id
                    THEN [merged[i] EXCEPT !.fitness_certificates =
                             Append(@, FitnessCertificate(cert_data.type, cert_data.expiry_date,
                                                          cert_data.is_valid))]
                    ELSE merged[i]],
                Tail(iot_data))

\* for override in manual_data: set current_status when the record has 'status_override'
RECURSIVE apply_manual_overrides(_, _)
apply_manual_overrides(merged, manual_data) ==
    IF manual_data = <<>> THEN merged
    ELSE LET override == Head(manual_data)
         IN apply_manual_overrides(
                [i \in Positions(merged) |->
                    IF /\ merged[i].trainset_id = override.trainset_id
                       /\ override.status_override # None
                    THEN [merged[i] EXCEPT !.current_status = override.status_override[1]]
                    ELSE merged[i]],
                Tail(manual_data))

_merge_data_sources(maximo_data, iot_data, manual_data) ==
    LET created == [i \in 1..known_trainsets |-> initial_trainset(i)]
        with_jobs == IF is_list(maximo_data)
                     THEN add_job_cards(created, maximo_data.value[1]) ELSE created
        with_certs == IF is_list(iot_data)
                      THEN add_fitness_certificates(with_jobs, iot_data.value[1]) ELSE with_jobs
    IN IF is_list(manual_data)
       THEN apply_manual_overrides(with_certs, manual_data.value[1]) ELSE with_certs

\* (variant: gather without return_exceptions, the first exception propagates)
gather_propagating(fetched) ==
    IF fetched["maximo"].raised # None THEN fetched["maximo"]
    ELSE IF fetched["iot"].raised # None THEN fetched["iot"]
    ELSE IF fetched["manual"].raised # None THEN fetched["manual"]
    ELSE Returned(<<fetched["maximo"], fetched["iot"], fetched["manual"]>>)
\* asyncio.gather(fetch_job_cards(), fetch_fitness_data(), fetch_manual_overrides(),
\*                return_exceptions=True): an exception is handed back as a result
gather(fetched) == Returned(<<fetched["maximo"], fetched["iot"], fetched["manual"]>>)

\* refresh_all_data once the three fetches are done: `except Exception: raise` re-raises
refresh_all_data(fetched) ==
    LET gathered == gather(fetched)
    IN IF gathered.raised # None THEN gathered
       ELSE Returned(_merge_data_sources(gathered.value[1][1], gathered.value[1][2],
                                         gathered.value[1][3]))

\* {ts.trainset_id: ts for ts in trainsets}: a later vehicle with the same id overwrites
cache_of(list) ==
    [id \in Ids(list) |->
        list[CHOOSE k \in Positions(list) :
                 /\ list[k].trainset_id = id
                 /\ \A m \in Positions(list) : list[m].trainset_id = id => m <= k]]

\* What a fetch can end with: an exception, or a list of records
JobCardData ==
    {<<>>,
     <<[job_id |-> "WO-2024-001", trainset_id |-> TrainsetId(3), status |-> "open",
        priority |-> 2, estimated_hours |-> 4, created_date |-> 0 - 1]>>,
     <<[job_id |-> "WO-2024-001", trainset_id |-> TrainsetId(3), status |-> "open",
        priority |-> 2, estimated_hours |-> 4, created_date |-> 0 - 1],
       [job_id |-> "WO-2024-004", trainset_id |-> UnknownId, status |-> "open",
        priority |-> 1, estimated_hours |-> 8, created_date |-> 0 - 2],
       [job_id |-> "WO-2024-002", trainset_id |-> TrainsetId(3), status |-> "in_progress",
        priority |-> 1, estimated_hours |-> 8, created_date |-> 0 - 2]>>}
FitnessData ==
    {<<>>,
     <<[trainset_id |-> TrainsetId(1), type |-> "rolling_stock",
        expiry_date |-> FarExpiry, is_valid |-> TRUE],
       [trainset_id |-> TrainsetId(25), type |-> "telecom",
        expiry_date |-> 0 - 5, is_valid |-> FALSE]>>,
     <<[trainset_id |-> UnknownId, type |-> "signalling",
        expiry_date |-> FarExpiry, is_valid |-> TRUE]>>}
ManualOverrides ==
    {<<>>,
     <<[trainset_id |-> TrainsetId(2), status_override |-> Some("maintenance")]>>,
     <<[trainset_id |-> TrainsetId(2), status_override |-> None],
       [trainset_id |-> UnknownId, status_override |-> Some("cleaning")]>>}
FetchOutcomes(data) == {Raised("ConnectionError")} \cup {Returned(list) : list \in data}

InitIngest ==
    /\ now \in Instants
    /\ ingest = NoIngest
    /\ trainsets = <<>>
    /\ last = NoCall
    /\ prev = NoCall
    /\ result = NoResult
    /\ probe = NoProbe
    /\ probe_ready = <<>>
    /\ probe_score = NoScore

\* Each of the gathered coroutines finishes on its own, in any order.
\* self.maximo_connector.fetch_job_cards()
FetchJobCards ==
    /\ ingest.fetched["maximo"] = None
    /\ \E outcome \in FetchOutcomes(JobCardData) :
          ingest' = [ingest EXCEPT !.fetched["maximo"] = Some(outcome)]
    /\ UNCHANGED <<now, trainsets, last, prev, result, probe, probe_ready, probe_score>>

\* self.iot_connector.fetch_fitness_data()
FetchFitnessData ==
    /\ ingest.fetched["iot"] = None
    /\ \E outcome \in FetchOutcomes(FitnessData) :
          ingest' = [ingest EXCEPT !.fetched["iot"] = Some(outcome)]
    /\ UNCHANGED <<now, trainsets, last, prev, result, probe, probe_ready, probe_score>>

\* self.manual_input.fetch_manual_overrides()
FetchManualOverrides ==
    /\ ingest.fetched["manual"] = None
    /\ \E outcome \in FetchOutcomes(ManualOverrides) :
          ingest' = [ingest EXCEPT !.fetched["manual"] = Some(outcome)]
    /\ UNCHANGED <<now, trainsets, last, prev, result, probe, probe_ready, probe_score>>

\* the gather is complete: merge, fill the cache, stamp the update, return the list
MergeAndReturn ==
    /\ ingest.refreshed = None
    /\ \A source \in Sources : ingest.fetched[source] # None
    /\ LET returned == refresh_all_data([source \in Sources |-> ingest.fetched[source][1]])
       IN IF returned.raised # None
          THEN /\ ingest' = [ingest EXCEPT !.refreshed = Some(returned)]
               /\ UNCHANGED trainsets
          ELSE /\ ingest' = [ingest EXCEPT
                                !.refreshed = Some(returned),
                                !.trainsets_cache = cache_of(returned.value[1]),
                                !.last_update = Some(now)]
               /\ trainsets' = returned.value[1]
    /\ UNCHANGED <<now, last, prev, result, probe, probe_ready, probe_score>>

NextIngest == FetchJobCards \/ FetchFitnessData \/ FetchManualOverrides \/ MergeAndReturn

SpecIngest == InitIngest /\ [][NextIngest]_vars

\* the gathered element of a source, and the vehicles of a list that carry an id
Fetched(source) == ingest.fetched[source][1]
RecordsFor(data, id) == SelectSeq(data, LAMBDA record : record.trainset_id = id)

\* C19: whichever of the three sources raise, refresh_all_data returns (it does not
\* raise) one vehicle for each of the 25 known ids, in order; a source that raised
\* contributes nothing (no job cards, no certificates, no status override), a
\* source that answered contributes one entry per record naming a known vehicle,
\* and every vehicle's certificates and job cards are lists, empty when no data.
C19_MergeToleratesFailedSources ==
    ingest.refreshed # None =>
        LET returned == ingest.refreshed[1]
            list == returned.value[1]
        IN /\ returned.raised = None
           /\ Len(list) = 25
           /\ trainsets = list
           /\ \A i \in 1..25 :
                 /\ list[i].trainset_id = TrainsetId(i)
                 /\ ingest.trainsets_cache[TrainsetId(i)] = list[i]
                 /\ DOMAIN list[i].job_cards = 1..Len(list[i].job_cards)
                 /\ DOMAIN list[i].fitness_certificates = 1..Len(list[i].fitness_certificates)
                 /\ Len(list[i].job_cards) =
                       IF Fetched("maximo").raised # None THEN 0
                       ELSE Len(RecordsFor(Fetched("maximo").value[1], TrainsetId(i)))
                 /\ Len(list[i].fitness_certificates) =
                       IF Fetched("iot").raised # None THEN 0
                       ELSE Len(RecordsFor(Fetched("iot").value[1], TrainsetId(i)))
                 /\ Fetched("manual").raised # None => list[i].current_status = "standby"

C19_Witness_TwoSourcesFailed ==
    /\ ingest.refreshed # None
    /\ Fetched("maximo") = Raised("ConnectionError")
    /\ Fetched("manual") = Raised("ConnectionError")
    /\ Fetched("iot").raised = None
    /\ ingest.refreshed[1].raised = None
    /\ Len(trainsets) = 25
    /\ Len(trainsets[1].fitness_certificates) = 1
    /\ trainsets[2].fitness_certificates = <<>>
    /\ \A i \in 1..25 : trainsets[i].job_cards = <<>>

(* Properties of equipment_failure and weather_impact (SpecScenario) *)

\* the job cards of the input vehicle followed by exactly one more, open, of the
\* given priority and hours
OneMoreOpenCard(before, after, priority, hours) ==
    /\ Len(after.job_cards) = Len(before.job_cards) + 1
    /\ SubSeq(after.job_cards, 1, Len(before.job_cards)) = before.job_cards
    /\ after.job_cards[Len(after.job_cards)].status = "open"
    /\ after.job_cards[Len(after.job_cards)].priority = priority
    /\ after.job_cards[Len(after.job_cards)].estimated_hours = hours
SameButStatusAndCards(before, after) ==
    \A field \in DOMAIN before \ {"current_status", "job_cards"} : after[field] = before[field]

\* C21: after equipment_failure the named vehicle, if the snapshot has it, has
\* current status maintenance and one more job card, open and of priority 1, and
\* is assigned maintenance in the scenario decisions; every other vehicle of the
\* perturbed snapshot equals its input.
C21_EquipmentFailureHitsNamedOnly ==
    (result.called /\ result.returned.scenario_type = "equipment_failure") =>
        /\ Len(result.modified_trainsets) = Len(result.trainsets)
        /\ \A i \in Positions(result.trainsets) :
              LET before == result.trainsets[i]
                  after == result.modified_trainsets[i]
              IN IF Some(before.trainset_id) = result.returned.parameters.trainset_id
                 THEN /\ after.current_status = "maintenance"
                      /\ OneMoreOpenCard(before, after, 1, result.returned.parameters.repair_hours)
                      /\ SameButStatusAndCards(before, after)
                      /\ StatusesOf(result.returned.scenario_decisions, before.trainset_id)
                            = {"maintenance"}
                 ELSE after = before

C21_Witness_ServedVehicleFails ==
    /\ result.called
    /\ result.returned.scenario_type = "equipment_failure"
    /\ Len(result.trainsets) = 2
    /\ \E i, j \in Positions(result.trainsets) :
          /\ i # j
          /\ Some(result.trainsets[i].trainset_id) = result.returned.parameters.trainset_id
          /\ result.trainsets[i].current_status # "maintenance"
          /\ result.modified_trainsets[i].current_status = "maintenance"
          /\ StatusesOf(result.returned.baseline_decisions, result.trainsets[i].trainset_id)
                = {"revenue_service"}
          /\ StatusesOf(result.returned.scenario_decisions, result.trainsets[i].trainset_id)
                = {"maintenance"}
          /\ result.modified_trainsets[j] = result.trainsets[j]

\* C22: after weather_impact every vehicle whose stabling bay is among the supplied
\* bays has one more job card, open, of priority 2 and with the supplied duration,
\* and is assigned maintenance in the scenario decisions; a vehicle whose bay is
\* not among them, or that has no bay, equals its input.
C22_WeatherImpactHitsAffectedBays ==
    (result.called /\ result.returned.scenario_type = "weather_impact") =>
        /\ Len(result.modified_trainsets) = Len(result.trainsets)
        /\ \A i \in Positions(result.trainsets) :
              LET before == result.trainsets[i]
                  after == result.modified_trainsets[i]
              IN IF /\ before.stabling_bay # None
                    /\ before.stabling_bay[1] \in result.returned.parameters.affected_bays
                 THEN /\ OneMoreOpenCard(before, after, 2,
                                         result.returned.parameters.impact_duration_hours)
                      /\ after.current_status = before.current_status
                      /\ SameButStatusAndCards(before, after)
                      /\ StatusesOf(result.returned.scenario_decisions, before.trainset_id)
                            = {"maintenance"}
                 ELSE after = before

C22_Witness_FloodedBayGrounds ==
    /\ result.called
    /\ result.returned.scenario_type = "weather_impact"
    /\ result.returned.parameters.impact_duration_hours = 6
    /\ Len(result.trainsets) = 2
    /\ \E i, j \in Positions(result.trainsets) :
          /\ result.trainsets[i].stabling_bay = Some(5)
          /\ 5 \in result.returned.parameters.affected_bays
          /\ StatusesOf(result.returned.baseline_decisions, result.trainsets[i].trainset_id)
                = {"revenue_service"}
          /\ StatusesOf(result.returned.scenario_decisions, result.trainsets[i].trainset_id)
                = {"maintenance"}
          /\ result.trainsets[j].stabling_bay = None
          /\ result.modified_trainsets[j] = result.trainsets[j]

(* Properties of the allocation walk (Spec) *)

ServedBefore(decisions, k) ==
    Cardinality({m \in 1..(k - 1) : decisions[m].recommended_status = "revenue_service"})

\* C23: a not-ready vehicle gets a maintenance decision that carries its composite
\* score and advances neither counter; the reasoning of the k-th revenue_service
\* decision of the output gives the demand and current = k - 1, the number of
\* service decisions made before it; the walk ends with service_count equal to
\* the number of service decisions and standby_count to the number of standby ones.
C23_CountersFollowDecisions ==
    last.called =>
        /\ \A k \in Positions(last.decisions) :
              last.decisions[k].recommended_status = "revenue_service" =>
                 last.decisions[k].reasoning[1] =
                     Reason("Allocated to service (demand, current)",
                            <<last.service_demand, ServedBefore(last.decisions, k)>>)
        /\ \A i \in Positions(last.trainsets) :
              ~is_service_ready(last.trainsets[i], last.at) =>
                 \A k \in DecisionsFor(last, i) :
                    /\ last.decisions[k].recommended_status = "maintenance"
                    /\ last.decisions[k].priority_score
                          = _calculate_composite_score(last.trainsets[i], last.at)
        /\ final_counts(sort_by_score(scored(last.trainsets, last.at)),
                        initial_service_count, initial_standby_count,
                        last.service_demand, last.at)
              = [service_count |-> StatusCount(last.decisions, "revenue_service"),
                 standby_count |-> StatusCount(last.decisions, "standby")]

C23_Witness_MaintenanceBetweenServices ==
    /\ last.called
    /\ Len(last.decisions) = 3
    /\ last.decisions[1].recommended_status = "revenue_service"
    /\ last.decisions[2].recommended_status = "maintenance"
    /\ last.decisions[2].priority_score > 0
    /\ last.decisions[3].recommended_status = "revenue_service"
    /\ last.decisions[3].reasoning[1].args = <<last.service_demand, 1>>

(* Properties of the stabling sub-score (SpecScore) *)

\* max(0, 1 - b / total_fleet_size) for an assigned bay b, 0.5 for no bay
StablingAsSpecified(bay) ==
    IF bay = None THEN HALF ELSE Max(0, ONE - (bay[1] * ONE) \div total_trainsets)

\* C24: for a vehicle with an assigned bay b >= 0, bay 0 included, the stabling
\* sub-score entering the composite score is max(0, 1 - b/total_fleet_size), so a
\* lower bay never scores lower than a higher one; only a vehicle without a bay
\* gets 0.5.
C24_StablingSubScoreByBay ==
    (probe_score.called /\ probe_score.outcome.raised = None) =>
        /\ stabling_score(probe) = StablingAsSpecified(probe.stabling_bay)
        /\ probe_score.outcome.value =
              Some(weight_service_readiness * readiness_score(probe, now)
                   + weight_mileage_balance * mileage_score(probe)
                   + weight_branding_priority * branding_score(probe)
                   + weight_maintenance_urgency * maintenance_score(probe, now)
                   + weight_stabling_efficiency * StablingAsSpecified(probe.stabling_bay))
        /\ \A other \in ScoreVehicles :
              (/\ probe.stabling_bay # None
               /\ other.stabling_bay # None
               /\ probe.stabling_bay[1] <= other.stabling_bay[1]) =>
                  stabling_score(probe) >= stabling_score(other)

\* bay 0 is scored like no bay at all, below bay 5
C24_Witness_BayZeroScoredAsNoBay ==
    /\ probe_score.called
    /\ probe_score.outcome.raised = None
    /\ probe.stabling_bay = Some(0)
    /\ stabling_score(probe) = HALF
    /\ stabling_score([probe EXCEPT !.stabling_bay = Some(5)]) > HALF
    /\ probe_score.outcome.value =
          Some(_calculate_composite_score([probe EXCEPT !.stabling_bay = None], now))

(* Properties of the custom scenario (SpecScenario) *)

\* the changes a modification list makes to the vehicle named id, in order
RECURSIVE ChangesFor(_, _)
ChangesFor(modifications, id) ==
    IF modifications = <<>> THEN <<>>
    ELSE (IF Head(modifications).trainset_id = Some(id)
          THEN Head(modifications).changes ELSE <<>>)
         \o ChangesFor(Tail(modifications), id)
\* the value the last change to a field supplies
LastValue(changes, field) ==
    changes[CHOOSE c \in Positions(changes) :
                /\ changes[c][1] = field
                /\ \A d \in Positions(changes) : changes[d][1] = field => d <= c][2]

\* C25: the custom scenario returns without error; on the perturbed copy a named
\* vehicle has, for every overridden field it has, the supplied value, every other
\* field as in the input, and a name that is no field of the vehicle changes
\* nothing; a vehicle not named keeps every field; the caller's list is untouched.
C25_CustomOverridesFieldsOnly ==
    /\ result.raised # None => result.request.scenario_type # "custom"
    /\ (result.called /\ result.returned.scenario_type = "custom") =>
          /\ trainsets = result.trainsets
          /\ Len(result.modified_trainsets) = Len(result.trainsets)
          /\ \A i \in Positions(result.trainsets) :
                LET before == result.trainsets[i]
                    after == result.modified_trainsets[i]
                    changes == ChangesFor(result.returned.parameters.modifications,
                                          before.trainset_id)
                    overridden == {changes[c][1] : c \in Positions(changes)}
                IN /\ DOMAIN after = DOMAIN before
                   /\ \A field \in DOMAIN before :
                         after[field] = IF field \in overridden
                                        THEN LastValue(changes, field)
                                        ELSE before[field]

C25_Witness_MethodNameRaises ==
    /\ ~result.called
    /\ result.raised = Some("ValueError")
    /\ result.request.scenario_type = "custom"
    /\ TrainsetId(2) \in Ids(result.trainsets)
    /\ \E m \in Positions(result.request.parameters.modifications) :
          \E c \in Positions(result.request.parameters.modifications[m].changes) :
              result.request.parameters.modifications[m].changes[c][1] = "is_service_ready"
    /\ trainsets = result.trainsets

(* Properties of the decision statuses (Spec) *)

\* C26: every recommended status is revenue_service, standby or maintenance; a
\* service-ready vehicle is never assigned maintenance; a ready vehicle is on
\* standby only when the service decisions made before it had already reached the
\* demand, so no standby decision precedes a revenue_service decision.
C26_StatusesAndStandbyAfterService ==
    last.called =>
        /\ \A k \in Positions(last.decisions) :
              /\ last.decisions[k].recommended_status
                    \in {"revenue_service", "standby", "maintenance"}
              /\ last.decisions[k].recommended_status = "standby" =>
                    ServedBefore(last.decisions, k) >= last.service_demand
        /\ \A i \in Positions(last.trainsets) :
              is_service_ready(last.trainsets[i], last.at) =>
                 \A k \in DecisionsFor(last, i) :
                    last.decisions[k].recommended_status # "maintenance"
        /\ \A a, b \in Positions(last.decisions) :
              (a < b /\ last.decisions[a].recommended_status = "standby") =>
                 last.decisions[b].recommended_status # "revenue_service"

C26_Witness_ServiceThenStandby ==
    /\ last.called
    /\ last.service_demand = 1
    /\ Len(last.decisions) = 3
    /\ last.decisions[1].recommended_status = "revenue_service"
    /\ last.decisions[2].recommended_status = "maintenance"
    /\ last.decisions[3].recommended_status = "standby"

(* Independence of the current operating status (SpecScenario) *)

DiffersOnlyInStatus(before, after) ==
    /\ Len(after) = Len(before)
    /\ \A i \in Positions(before) :
          after[i] = [before[i] EXCEPT !.current_status = after[i].current_status]

\* C27: the allocation does not read current_status: when the perturbed snapshot
\* differs from the input in current_status fields only, the scenario decisions
\* equal the baseline decisions, and marking any one vehicle maintenance or
\* out_of_service leaves the decisions of the snapshot as they are.
C27_DecisionsIgnoreCurrentStatus ==
    result.called =>
        /\ DiffersOnlyInStatus(result.trainsets, result.modified_trainsets) =>
              result.returned.scenario_decisions = result.returned.baseline_decisions
        /\ \A i \in Positions(result.trainsets), status \in {"maintenance", "out_of_service"} :
              optimize_induction([result.trainsets EXCEPT ![i].current_status = status],
                                 default_service_demand, result.at)
                 = result.returned.baseline_decisions

C27_Witness_MarkedMaintenanceStillServed ==
    /\ result.called
    /\ result.returned.scenario_type = "custom"
    /\ result.modified_trainsets # result.trainsets
    /\ DiffersOnlyInStatus(result.trainsets, result.modified_trainsets)
    /\ \E i \in Positions(result.modified_trainsets) :
          /\ result.modified_trainsets[i].current_status = "maintenance"
          /\ result.trainsets[i].current_status # "maintenance"
          /\ StatusesOf(result.returned.scenario_decisions,
                        result.modified_trainsets[i].trainset_id) = {"revenue_service"}

(* Properties of increased_demand (SpecScenario) *)

\* C28: increased_demand changes no vehicle, and both runs use the default
\* service_demand, so the scenario decisions equal the baseline decisions, every
\* difference is 0 and the changed list is empty.
C28_IncreasedDemandChangesNothing ==
    (result.called /\ result.returned.scenario_type = "increased_demand") =>
        /\ result.modified_trainsets = result.trainsets
        /\ result.returned.baseline_decisions
              = optimize_induction(result.trainsets, default_service_demand, result.at)
        /\ result.returned.scenario_decisions = result.returned.baseline_decisions
        /\ \A s \in DOMAIN result.returned.comparison.differences :
              result.returned.comparison.differences[s] = 0
        /\ result.returned.comparison.changed_trainsets = <<>>
        /\ result.returned.comparison.total_changes = 0

C28_Witness_MixedFleetUnchanged ==
    /\ result.called
    /\ result.returned.scenario_type = "increased_demand"
    /\ Len(result.trainsets) = 2
    /\ DOMAIN result.returned.comparison.differences = {"revenue_service", "maintenance"}
    /\ result.returned.comparison.total_changes = 0
    /\ \E i \in Positions(result.trainsets) : result.trainsets[i].job_cards # <<>>

-----------------------------------------------------------------------------
(* InductionScheduler.simulate_scenario and the POST /simulate route *)

\* (variant: the modifications of the changes dictionary are applied to the
\* vehicles of the list)
_apply_scenario_changes_applying(heap, list, changes) ==
    apply_modifications([heap |-> heap, list |-> list_copy(list)], changes.modifications)
\* _apply_scenario_changes: return trainsets.copy()
_apply_scenario_changes(heap, list, changes) ==
    [heap |-> heap, list |-> list_copy(list)]

\* simulate_scenario(trainsets, scenario_changes) at instant `at`: the decisions
\* it returns and the caller's list as the call leaves it
simulate_scenario(ts, scenario_changes, at) ==
    LET heap == ts
        list == [i \in Positions(ts) |-> i]
        modified_trainsets == _apply_scenario_changes(heap, list, scenario_changes)
    IN [decisions |-> optimize_induction(Deref(modified_trainsets.heap, modified_trainsets.list),
                                         default_service_demand, at),
        caller_trainsets |-> Deref(modified_trainsets.heap, list)]

\* POST /simulate: decisions = scheduler.simulate_scenario(trainsets, scenario_changes);
\* the service_demand of the request is not handed on
route_simulate_scenario(ts, scenario_changes, service_demand, at) ==
    simulate_scenario(ts, scenario_changes, at)

\* Changes dictionaries: a list of modifications and a service demand, either
\* of them possibly absent
ScenarioChanges ==
    {[modifications |-> mods, service_demand |-> demand] :
        mods \in ModificationLists, demand \in {None, Some(1)}}

RouteDemands == {default_service_demand, 1, 0}

InitSimulate ==
    /\ now \in Instants
    /\ trainsets \in Fleets(MaxSmallFleet)
    /\ last = NoCall
    /\ prev = NoCall
    /\ result = NoResult
    /\ probe = NoProbe
    /\ probe_ready = <<>>
    /\ probe_score = NoScore
    /\ ingest = NoIngest

SimulateScenario ==
    /\ ~result.called
    /\ \E scenario_changes \in ScenarioChanges, service_demand \in RouteDemands :
          LET outcome == route_simulate_scenario(trainsets, scenario_changes, service_demand, now)
          IN /\ result' = [called |-> TRUE,
                           raised |-> None,
                           trainsets |-> trainsets,
                           at |-> now,
                           scenario_changes |-> scenario_changes,
                           service_demand |-> service_demand,
                           returned |-> outcome.decisions]
             /\ trainsets' = outcome.caller_trainsets
    /\ UNCHANGED <<now, last, prev, probe, probe_ready, probe_score, ingest>>

NextSimulate == SimulateScenario

SpecSimulate == InitSimulate /\ [][NextSimulate]_vars

-----------------------------------------------------------------------------
(* SpecRoutes: GET /trainsets/{trainset_id} and DELETE /manual-override/{trainset_id} *)

\* An exception object: HTTPException carries a status code and a detail
Exception(type) == [type |-> type, status_code |-> None, detail |-> None]
HTTPException(status_code, detail) ==
    [type |-> "HTTPException", status_code |-> Some(status_code), detail |-> Some(detail)]

\* `except Exception as e`: HTTPException is a subclass of Exception
caught_by_except_Exception(exception) == TRUE

\* JobCardStatus(job_data['status']) and CertificateType(cert_data['type']) raise
\* ValueError for a value that is no member, once the record names a known vehicle
merge_raises(maximo_data, iot_data) ==
    LET known == {TrainsetId(i) : i \in 1..known_trainsets}
    IN \/ /\ is_list(maximo_data)
          /\ \E k \in Positions(maximo_data.value[1]) :
                /\ maximo_data.value[1][k].trainset_id \in known
                /\ maximo_data.value[1][k].status \notin JobCardStatus
       \/ /\ is_list(iot_data)
          /\ \E k \in Positions(iot_data.value[1]) :
                /\ iot_data.value[1][k].trainset_id \in known
                /\ iot_data.value[1][k].type \notin CertificateType

\* DataManager.get_trainset(trainset_id): the cached vehicle, or after a refresh
\* self.trainsets_cache.get(trainset_id); an exception of the refresh propagates
get_trainset(trainsets_cache, fetched, trainset_id) ==
    IF trainset_id \in DOMAIN trainsets_cache
    THEN Returned(Some(trainsets_cache[trainset_id]))
    ELSE IF merge_raises(fetched["maximo"], fetched["iot"])
    THEN Raised(Exception("ValueError"))
    ELSE LET refreshed == refresh_all_data(fetched)
             cache == cache_of(refreshed.value[1])
         IN IF refreshed.raised # None THEN Raised(Exception(refreshed.raised[1]))
            ELSE Returned(IF trainset_id \in DOMAIN cache
                          THEN Some(cache[trainset_id]) ELSE None)

\* ManualInputHandler.remove_manual_override: True when an override was deleted
remove_manual_override(manual_overrides, trainset_id) ==
    [returned |-> trainset_id \in manual_overrides,
     manual_overrides |-> manual_overrides \ {trainset_id}]

\* A handler's response: what it returns, or the HTTPException that leaves it
Response(status_code, detail, body) ==
    [status_code |-> status_code, detail |-> detail, body |-> body]
respond(outcome) ==
    IF outcome.raised = None THEN Response(200, None, outcome.value)
    ELSE Response(outcome.raised[1].status_code[1], outcome.raised[1].detail, None)

\* try: <body> except Exception as e: raise HTTPException(status_code=500, detail=...)
try_except_Exception(body, detail) ==
    IF body.raised # None /\ caught_by_except_Exception(body.raised[1])
    THEN Raised(HTTPException(500, detail))
    ELSE body

\* routes.get_trainset
route_get_trainset(trainsets_cache, fetched, trainset_id) ==
    LET trainset == get_trainset(trainsets_cache, fetched, trainset_id)
        body == IF trainset.raised # None THEN trainset
                ELSE IF trainset.value[1] = None
                THEN Raised(HTTPException(404, "Trainset not found"))
                ELSE Returned(trainset.value[1][1])
    IN respond(try_except_Exception(body, "Failed to fetch trainset data"))

\* routes.remove_manual_override
route_remove_manual_override(manual_overrides, trainset_id) ==
    LET success == remove_manual_override(manual_overrides, trainset_id).returned
        body == IF success THEN Returned("Manual override removed")
                ELSE Raised(HTTPException(404, "No override found for trainset"))
    IN respond(try_except_Exception(body, "Failed to remove manual override"))

\* get_data_manager: every request gets DataManager(), whose cache is empty and
\* whose ManualInputHandler() holds no override
fresh_trainsets_cache == <<>>
fresh_manual_overrides == {}

RequestedIds == {TrainsetId(1), TrainsetId(3), TrainsetId(25), UnknownId}

\* job card records as the work-order system may send them
RouteJobCardData ==
    JobCardData \cup
    {<<[job_id |-> "WO-2024-009", trainset_id |-> TrainsetId(3), status |-> "cancelled",
        priority |-> 3, estimated_hours |-> 2, created_date |-> 0 - 1]>>}

InitRoutes ==
    /\ now \in Instants
    /\ ingest = NoIngest
    /\ trainsets = <<>>
    /\ last = NoCall
    /\ prev = NoCall
    /\ result = NoResult
    /\ probe = NoProbe
    /\ probe_ready = <<>>
    /\ probe_score = NoScore

GetTrainset ==
    /\ ~result.called
    /\ \E trainset_id \in RequestedIds,
          maximo \in FetchOutcomes(RouteJobCardData),
          iot \in FetchOutcomes(FitnessData),
          manual \in FetchOutcomes(ManualOverrides) :
          LET fetched == [source \in Sources |->
                             IF source = "maximo" THEN maximo
                             ELSE IF source = "iot" THEN iot ELSE manual]
          IN result' = [called |-> TRUE,
                        raised |-> None,
                        route |-> "get_trainset",
                        trainset_id |-> trainset_id,
                        fetched |-> fetched,
                        found |-> get_trainset(fresh_trainsets_cache, fetched, trainset_id),
                        response |-> route_get_trainset(fresh_trainsets_cache, fetched,
                                                        trainset_id)]
    /\ UNCHANGED <<now, trainsets, last, prev, probe, probe_ready, probe_score, ingest>>

RemoveManualOverride ==
    /\ ~result.called
    /\ \E trainset_id \in RequestedIds :
          result' = [called |-> TRUE,
                     raised |-> None,
                     route |-> "remove_manual_override",
                     trainset_id |-> trainset_id,
                     manual_overrides |-> fresh_manual_overrides,
                     response |-> route_remove_manual_override(fresh_manual_overrides,
                                                               trainset_id)]
    /\ UNCHANGED <<now, trainsets, last, prev, probe, probe_ready, probe_score, ingest>>

NextRoutes == GetTrainset \/ RemoveManualOverride

SpecRoutes == InitRoutes /\ [][NextRoutes]_vars

\* C30: GET /trainsets/{trainset_id} answers an id the data manager does not
\* know with 404 "Trainset not found", and answers 500 only when fetching the
\* data failed; DELETE /manual-override/{trainset_id} answers 404 when the
\* vehicle has no override.
C30_UnknownIdAnswered404 ==
    result.called =>
        /\ result.route = "get_trainset" =>
              /\ (result.found.raised = None /\ result.found.value[1] = None) =>
                    /\ result.response.status_code = 404
                    /\ result.response.detail = Some("Trainset not found")
              /\ result.response.status_code = 500 => result.found.raised # None
        /\ result.route = "remove_manual_override" =>
              (result.trainset_id \notin result.manual_overrides =>
                  result.response.status_code = 404)

\* the fetches succeed, the id is unknown, and the answer is the 500 of a failed fetch
C30_Witness_UnknownIdAnswered500 ==
    /\ result.called
    /\ result.route = "get_trainset"
    /\ result.trainset_id = UnknownId
    /\ \A source \in Sources : is_list(result.fetched[source])
    /\ result.found = Returned(None)
    /\ result.response = Response(500, Some("Failed to fetch trainset data"), None)

=============================================================================
